---- MODULE Spec2Model ----
(***************************************************************************)
(* Model of the radar acquisition pipeline of AWR2RPi_readData_py:         *)
(*   - read_frame_header   (src/hw_comms_utils.py)   the sync scanner      *)
(*   - DataLogger, Worker, BSDVisualizer.closeEvent  (src/main.py)         *)
(*   - parse_cfg           (src/python_code/parsing_utils.py)              *)
(*   - pow2_roundup        (src/math_utils.py)                             *)
(*   - configure_sensor_and_params, __main__         (src/main.py)         *)
(*     with configure_control_port, reconfigure_port_for_data              *)
(*                                                   (src/hw_comms_utils.py) *)
(* Each part has its own specification over the shared variables; the      *)
(* variables of the other parts stay at their initial values.              *)
(***************************************************************************)
EXTENDS Integers, Sequences, FiniteSets, TLC

\* ------------------------------------------------------------------ bounds
\* A serial stream is the concatenation of at most MaxChunks chunks.
MaxChunks == 3
\* frame_header_length_bytes ranges over SyncLen .. SyncLen + MaxHeaderRest.
MaxHeaderRest == 2
\* Reads that time out while bytes are still to come (mid-stream stalls).
MaxStalls == 1
\* Frames the producer hands over in one run.
MaxFrames == 3
\* Calls of parse_cfg in one run.
MaxCalls == 3
\* pow2_roundup is called on -MaxPow2Arg .. MaxPow2Arg.
MaxPow2Arg == 40
\* Calls of pow2_roundup in one run, each on the result of the one before.
MaxPow2Calls == 2
\* read_to_struct is called on buffers of 0 .. MaxBufLen bytes.
MaxBufLen == 4

\* ------------------------------------------------------ read_frame_header
VARIABLES
    stream,             \* every byte the port will ever deliver, in order
    pos,                \* number of bytes consumed from the stream so far
    frame_header_length_bytes,
    portFails,          \* TRUE: a read may raise serial.SerialException
    stalls,             \* mid-stream read timeouts so far
    pc,                 \* "search" | "match" | "header" | "returned" | "raised"
    byte,               \* the byte of the last one-byte read
    full_pattern,       \* byte + remaining_pattern of the last 7-byte read
    out_of_sync_bytes,
    rx_header,          \* returned header, None when none
    byte_count,         \* second component of the returned tuple
    lastRead,           \* [site, req, got, err] of the last serial read
    mismatches          \* full 8-byte sequences that differed from the pattern

syncVars == <<stream, pos, frame_header_length_bytes, portFails, stalls, pc,
              byte, full_pattern, out_of_sync_bytes, rx_header, byte_count,
              lastRead, mismatches>>

\* ------------------------------------------------- DataLogger (main.py)
VARIABLES
    data_queue,         \* self.data_queue, a queue.Queue of frames
    log_is_running,     \* DataLogger.is_running
    log_file,           \* self.log_file: "None" | "open" | "closed"
    file_content,       \* the tokens written to the log file, in order
    first_frame,        \* self.first_frame
    lpc,                \* where DataLogger.run stands
    frame,              \* the frame run has dequeued and not yet written
    log_finished,       \* emissions of DataLogger.finished
    added,              \* every frame handed to add_data, in call order
    addedAtStop,        \* Len(added) when stop() was called
    logErr              \* an exception reached line 75

logVars == <<data_queue, log_is_running, log_file, file_content, first_frame,
             lpc, frame, log_finished, added, addedAtStop, logErr>>

\* ------------------------------------- Worker and BSDVisualizer (main.py)
VARIABLES
    worker_is_running,  \* Worker.is_running
    wpc,                \* where Worker.run stands
    frame_data,         \* what read_and_parse_frame gave the last iteration
    emitted,            \* every frame emitted through frame_ready, in order
    worker_finished,    \* emissions of Worker.finished
    gui_events,         \* frame_ready signals queued for the GUI thread
    gpc,                \* where the GUI thread stands
    frame_num,          \* BSDVisualizer.frame_num
    port_open           \* h_data_port.is_open

appVars == <<worker_is_running, wpc, frame_data, emitted, worker_finished,
             gui_events, gpc, frame_num, port_open>>

\* ------------------------------------------- parse_cfg (parsing_utils.py)
VARIABLES
    cfg_pc,             \* "idle" | "lines": where parse_cfg stands
    cli_cfg,            \* the command list of the call in progress
    line_no,            \* the line the for loop of line 87 reads next
    params,             \* the RadarParams object the call builds
    cfg_calls           \* finished calls: [cfg, result], in call order

cfgVars == <<cfg_pc, cli_cfg, line_no, params, cfg_calls>>

\* --------------------------------------------- pow2_roundup (math_utils.py)
VARIABLES
    pow2_pc,            \* "loop" | "returned": where pow2_roundup stands
    pow2_x,             \* x, the argument of the call in progress
    pow2_y,             \* y, the local of the call in progress
    pow2_calls          \* finished calls: [x, y], in call order

pow2Vars == <<pow2_pc, pow2_x, pow2_y, pow2_calls>>

\* ------------------- configure_sensor_and_params and __main__ (main.py)
VARIABLES
    st_pc,              \* "scan" | "open" | "send" | "reconfigure" | "main" |
                        \* "done" | "raised": where the startup stands
    commands,           \* cli_cfg of configure_sensor_and_params
    target_baud_rate,
    cmd_idx,            \* the command the for loop of line 252 takes next
    h_data_port,        \* [handle, is_open, baudrate]; handle FALSE is None
    written,            \* every write on the port: [idx, baud], in order
    baud_sets,          \* every assignment to baudrate: [after, rate, ok]
    buffers_reset,      \* reset_input_buffer and reset_output_buffer ran
    port_env,           \* "Listed" | "NotListed" | "OpenRaises"
    fault,              \* "none" | "baud" | "write": what the port refuses
    st_ret,             \* "pending" | "NoneNone" | "ParamsPort"
    threads_started     \* BSDVisualizer was built and started its threads

startVars == <<st_pc, commands, target_baud_rate, cmd_idx, h_data_port,
               written, baud_sets, buffers_reset, port_env, fault, st_ret,
               threads_started>>

\* --------------------------------- read_to_struct (parsing_utils.py)
VARIABLES
    rts_pc,             \* "call" | "returned" | "raised": where read_to_struct
                        \* stands
    byte_array,         \* the buffer handed to read_to_struct
    struct_def,         \* the template: the fields of the dict, in its order
    rts_result          \* None, or the dict as the sequence of its items

structVars == <<rts_pc, byte_array, struct_def, rts_result>>

\* --------------------- the header search under Worker.run (main.py)
VARIABLES
    scan_byte           \* the last byte the header search read and discarded

scanVars == <<scan_byte>>

vars == <<syncVars, logVars, appVars, cfgVars, pow2Vars, startVars,
          structVars, scanVars>>

SYNC_PATTERN == <<2, 1, 4, 3, 6, 5, 8, 7>>
SyncLen == 8

\* Python's None as the returned header; no byte is negative.
None == <<-1>>

\* A sync pattern whose tail was corrupted on the wire.
CorruptSync == <<2, 1, 4, 3, 0, 0, 0, 0>>

\* What a stream is made of: a junk byte, a stray first sync byte, a corrupted
\* pattern, the pattern.
StreamChunks == { <<0>>, <<2>>, CorruptSync, SYNC_PATTERN }

RECURSIVE Streams(_)
Streams(n) ==
    IF n = 0 THEN { <<>> }
    ELSE LET S == Streams(n - 1)
         IN  S \cup { s \o c : s \in S, c \in StreamChunks }

HeaderLengths == SyncLen .. (SyncLen + MaxHeaderRest)

Min(a, b) == IF a < b THEN a ELSE b

\* The offsets (0-based) at which the sync pattern occurs in s.
SyncOffsets(s) ==
    { k \in 0 .. (Len(s) - SyncLen) : SubSeq(s, k + 1, k + SyncLen) = SYNC_PATTERN }

\* serial.Serial.read(n) with a timeout: every byte asked for when the stream
\* still holds them, what is left when the stream ends first, and fewer than
\* that when the timeout expires while bytes are still on their way.
ReadCounts(n) ==
    LET full == Min(n, Len(stream) - pos)
    IN  { full } \cup (IF stalls < MaxStalls THEN 0 .. (full - 1) ELSE {})

Stalled(n, got) == got < Min(n, Len(stream) - pos)

ReadBytes(got) == SubSeq(stream, pos + 1, pos + got)

NoteRead(site, req, got) ==
    /\ lastRead' = [site |-> site, req |-> req, got |-> got, err |-> FALSE]
    /\ pos' = pos + got
    /\ stalls' = IF Stalled(req, got) THEN stalls + 1 ELSE stalls

\* Line 90: byte == SYNC_PATTERN[0:1].
IsSyncStart(b) == b = SubSeq(SYNC_PATTERN, 1, 1)

\* A comparison of the first half of the pattern only.
PatternMatches_Prefix(fp) == SubSeq(fp, 1, 4) = SubSeq(SYNC_PATTERN, 1, 4)

\* Line 100: full_pattern == SYNC_PATTERN.
PatternMatches(fp) == fp = SYNC_PATTERN

\* A short pattern read counted as a whole pattern.
ShortPatternDiscard_WholePattern(got) == Len(SYNC_PATTERN)

\* A short pattern read that forgets the first byte.
ShortPatternDiscard_TailOnly(got) == got

\* Line 96: what a short pattern read adds to out_of_sync_bytes.
ShortPatternDiscard(got) == 1 + got

\* A mismatch that counts every byte it consumed.
MismatchDiscard_Consumed(remaining_pattern) == 1 + Len(remaining_pattern)

\* Line 116: what a full pattern read that does not match adds to
\* out_of_sync_bytes: the first byte only, whatever remaining_pattern holds.
MismatchDiscard(remaining_pattern) == 1

\* A short header read that forgets the pattern before it.
ShortHeaderDiscard_RestOnly(got) == got

\* Line 110: what a short header read adds to out_of_sync_bytes.
ShortHeaderDiscard(got) == Len(SYNC_PATTERN) + got

\* A header read that never checks its length.
HeaderComplete_Always(got, header_rest_len) == TRUE

\* Line 105: len(header_rest) == header_rest_len.
HeaderComplete(got, header_rest_len) == got = header_rest_len

SyncInit ==
    /\ stream \in Streams(MaxChunks)
    /\ frame_header_length_bytes \in HeaderLengths
    /\ portFails \in BOOLEAN
    /\ pos = 0
    /\ stalls = 0
    /\ pc = "search"
    /\ byte = <<>>
    /\ full_pattern = <<>>
    /\ out_of_sync_bytes = 0
    /\ rx_header = None
    /\ byte_count = 0
    /\ lastRead = [site |-> "none", req |-> 0, got |-> 0, err |-> FALSE]
    /\ mismatches = 0

\* Lines 79-84: the one-byte read timed out: return None, 0, out_of_sync_bytes.
SearchTimeout ==
    /\ pc = "search"
    /\ 0 \in ReadCounts(1)
    /\ NoteRead("search", 1, 0)
    /\ pc' = "returned"
    /\ rx_header' = None
    /\ byte_count' = 0
    /\ UNCHANGED <<stream, frame_header_length_bytes, portFails, byte,
                   full_pattern, out_of_sync_bytes, mismatches>>
    /\ UNCHANGED <<logVars, appVars, cfgVars, pow2Vars, startVars, structVars, scanVars>>

\* Lines 85-87: the one-byte read raised: the same return.
SearchError ==
    /\ pc = "search"
    /\ portFails
    /\ lastRead' = [site |-> "search", req |-> 1, got |-> 0, err |-> TRUE]
    /\ pc' = "returned"
    /\ rx_header' = None
    /\ byte_count' = 0
    /\ UNCHANGED <<stream, pos, frame_header_length_bytes, portFails, stalls,
                   byte, full_pattern, out_of_sync_bytes, mismatches>>
    /\ UNCHANGED <<logVars, appVars, cfgVars, pow2Vars, startVars, structVars, scanVars>>

\* Lines 80, 90, 119-120: one byte read; the first sync byte starts a match,
\* any other byte is discarded.
SearchByte ==
    /\ pc = "search"
    /\ 1 \in ReadCounts(1)
    /\ NoteRead("search", 1, 1)
    /\ byte' = ReadBytes(1)
    /\ IF IsSyncStart(ReadBytes(1))
       THEN /\ pc' = "match"
            /\ UNCHANGED out_of_sync_bytes
       ELSE /\ pc' = "search"
            /\ out_of_sync_bytes' = out_of_sync_bytes + 1
    /\ UNCHANGED <<stream, frame_header_length_bytes, portFails, full_pattern,
                   rx_header, byte_count, mismatches>>
    /\ UNCHANGED <<logVars, appVars, cfgVars, pow2Vars, startVars, structVars, scanVars>>

\* Lines 92-100, 112-118: the 7-byte read after a first sync byte.
MatchRead ==
    /\ pc = "match"
    /\ \E got \in ReadCounts(7) :
        /\ NoteRead("match", 7, got)
        /\ IF got < 7
           THEN /\ out_of_sync_bytes' = out_of_sync_bytes + ShortPatternDiscard(got)
                /\ pc' = "search"
                /\ UNCHANGED <<full_pattern, mismatches>>
           ELSE /\ full_pattern' = byte \o ReadBytes(got)
                /\ IF PatternMatches(byte \o ReadBytes(got))
                   THEN /\ pc' = "header"
                        /\ UNCHANGED <<out_of_sync_bytes, mismatches>>
                   ELSE /\ out_of_sync_bytes' =
                            out_of_sync_bytes + MismatchDiscard(ReadBytes(got))
                        /\ mismatches' = mismatches + 1
                        /\ pc' = "search"
    /\ UNCHANGED <<stream, frame_header_length_bytes, portFails, byte,
                   rx_header, byte_count>>
    /\ UNCHANGED <<logVars, appVars, cfgVars, pow2Vars, startVars, structVars, scanVars>>

\* Lines 101-111: the rest of the header after a full pattern.
HeaderRead ==
    /\ pc = "header"
    /\ LET header_rest_len == frame_header_length_bytes - Len(SYNC_PATTERN)
       IN  \E got \in ReadCounts(header_rest_len) :
            /\ NoteRead("header", header_rest_len, got)
            /\ IF HeaderComplete(got, header_rest_len)
               THEN /\ rx_header' = full_pattern \o ReadBytes(got)
                    /\ byte_count' = frame_header_length_bytes
                    /\ pc' = "returned"
                    /\ UNCHANGED out_of_sync_bytes
               ELSE /\ out_of_sync_bytes' =
                            out_of_sync_bytes + ShortHeaderDiscard(got)
                    /\ pc' = "search"
                    /\ UNCHANGED <<rx_header, byte_count>>
    /\ UNCHANGED <<stream, frame_header_length_bytes, portFails, byte,
                   full_pattern, mismatches>>
    /\ UNCHANGED <<logVars, appVars, cfgVars, pow2Vars, startVars, structVars, scanVars>>

\* Lines 92 and 103 stand outside the try of lines 79-87: a SerialException
\* raised there leaves read_frame_header as an exception, not as a result.
BlockReadError ==
    /\ pc \in {"match", "header"}
    /\ portFails
    /\ lastRead' = [site |-> pc,
                    req |-> IF pc = "match" THEN 7
                            ELSE frame_header_length_bytes - Len(SYNC_PATTERN),
                    got |-> 0, err |-> TRUE]
    /\ pc' = "raised"
    /\ UNCHANGED <<stream, pos, frame_header_length_bytes, portFails, stalls,
                   byte, full_pattern, out_of_sync_bytes, rx_header,
                   byte_count, mismatches>>
    /\ UNCHANGED <<logVars, appVars, cfgVars, pow2Vars, startVars, structVars, scanVars>>

\* ----------------------------------------------------------- DataLogger

\* A token of the log file: a bracket, a comma, a whole frame object, or the
\* part of an object that json.dump wrote before it raised.
Tok(t) == [t |-> t, id |-> 0]
FrameTok(f) == [t |-> "frame", id |-> f]

\* A LIFO queue in place of queue.Queue.
QueueGet_Lifo(q) == [item |-> q[Len(q)], rest |-> SubSeq(q, 1, Len(q) - 1)]

\* Lines 48, 63: queue.Queue is first in, first out.
QueueGet(q) == [item |-> Head(q), rest |-> Tail(q)]

\* A queue with room for one frame, queue.Queue(maxsize=1): put waits while the
\* queue is full.
add_data_Bounded(f) ==
    /\ Len(data_queue) < 1
    /\ data_queue' = Append(data_queue, f)
    /\ added' = Append(added, f)

\* Lines 48, 84-86: add_data puts the frame on the queue; queue.Queue() has
\* no maxsize, so put neither waits nor raises queue.Full.
add_data(f) ==
    /\ data_queue' = Append(data_queue, f)
    /\ added' = Append(added, f)

\* Lines 88-91: stop clears the running flag.
stop ==
    /\ log_is_running' = FALSE
    /\ addedAtStop' = Len(added)

\* Lines 45-51, and the logger thread started at lines 150-154.
LogInit ==
    /\ data_queue = <<>>
    /\ log_is_running = TRUE
    /\ log_file = "None"
    /\ file_content = <<>>
    /\ first_frame = TRUE
    /\ lpc = "start"
    /\ frame = 0
    /\ log_finished = 0
    /\ added = <<>>
    /\ addedAtStop = 0
    /\ logErr = FALSE

\* Lines 56-58: the file is opened and the opening bracket written.
LoggerOpen ==
    /\ lpc = "start"
    /\ log_file' = "open"
    /\ file_content' = <<Tok("[")>>
    /\ lpc' = "loop"
    /\ UNCHANGED <<data_queue, log_is_running, first_frame, frame,
                   log_finished, added, addedAtStop, logErr>>
    /\ UNCHANGED <<syncVars, appVars, cfgVars, pow2Vars, startVars, structVars, scanVars>>

\* Lines 56, 75-76: open raises; log_file stays None.
LoggerOpenRaises ==
    /\ lpc = "start"
    /\ logErr' = TRUE
    /\ lpc' = "finally"
    /\ UNCHANGED <<data_queue, log_is_running, log_file, file_content,
                   first_frame, frame, log_finished, added, addedAtStop>>
    /\ UNCHANGED <<syncVars, appVars, cfgVars, pow2Vars, startVars, structVars, scanVars>>

\* The loop condition without its second operand: while self.is_running.
LoggerCheckRunning_NoDrain ==
    /\ lpc = "loop"
    /\ lpc' = IF log_is_running THEN "get" ELSE "finally"
    /\ UNCHANGED <<data_queue, log_is_running, log_file, file_content,
                   first_frame, frame, log_finished, added, addedAtStop, logErr>>
    /\ UNCHANGED <<syncVars, appVars, cfgVars, pow2Vars, startVars, structVars, scanVars>>

\* Line 60, first operand of the loop condition: self.is_running.
LoggerCheckRunning ==
    /\ lpc = "loop"
    /\ lpc' = IF log_is_running THEN "get" ELSE "empty"
    /\ UNCHANGED <<data_queue, log_is_running, log_file, file_content,
                   first_frame, frame, log_finished, added, addedAtStop, logErr>>
    /\ UNCHANGED <<syncVars, appVars, cfgVars, pow2Vars, startVars, structVars, scanVars>>

\* Line 60, second operand, read after the first was False:
\* not self.data_queue.empty().
LoggerCheckEmpty ==
    /\ lpc = "empty"
    /\ lpc' = IF data_queue # <<>> THEN "get" ELSE "finally"
    /\ UNCHANGED <<data_queue, log_is_running, log_file, file_content,
                   first_frame, frame, log_finished, added, addedAtStop, logErr>>
    /\ UNCHANGED <<syncVars, appVars, cfgVars, pow2Vars, startVars, structVars, scanVars>>

\* Line 63: get returns the next frame.
LoggerGet ==
    /\ lpc = "get"
    /\ data_queue # <<>>
    /\ frame' = QueueGet(data_queue).item
    /\ data_queue' = QueueGet(data_queue).rest
    /\ lpc' = "write"
    /\ UNCHANGED <<log_is_running, log_file, file_content, first_frame,
                   log_finished, added, addedAtStop, logErr>>
    /\ UNCHANGED <<syncVars, appVars, cfgVars, pow2Vars, startVars, structVars, scanVars>>

\* A get without a timeout: on an empty queue it does not return.
LoggerGetTimeout_Blocking ==
    /\ lpc = "get"
    /\ data_queue = <<>>
    /\ FALSE
    /\ UNCHANGED vars

\* Lines 63, 72-73: nothing arrived within the timeout: queue.Empty, continue.
LoggerGetTimeout ==
    /\ lpc = "get"
    /\ data_queue = <<>>
    /\ lpc' = "loop"
    /\ UNCHANGED <<data_queue, log_is_running, log_file, file_content,
                   first_frame, frame, log_finished, added, addedAtStop, logErr>>
    /\ UNCHANGED <<syncVars, appVars, cfgVars, pow2Vars, startVars, structVars, scanVars>>

\* Lines 65-66: the separating comma, written before the frame.
Separator == IF first_frame THEN <<>> ELSE <<Tok(",")>>

\* Lines 65-70: comma, frame object, first_frame cleared.
LoggerWrite ==
    /\ lpc = "write"
    /\ file_content' = file_content \o Separator \o <<FrameTok(frame)>>
    /\ first_frame' = FALSE
    /\ frame' = 0
    /\ lpc' = "loop"
    /\ UNCHANGED <<data_queue, log_is_running, log_file, log_finished, added,
                   addedAtStop, logErr>>
    /\ UNCHANGED <<syncVars, appVars, cfgVars, pow2Vars, startVars, structVars, scanVars>>

\* An exception of the logger that takes the acquisition down with it.
LoggerWriteRaises_StopsWorker ==
    /\ lpc = "write"
    /\ file_content' = file_content \o Separator
    /\ logErr' = TRUE
    /\ frame' = 0
    /\ lpc' = "finally"
    /\ worker_is_running' = FALSE
    /\ UNCHANGED <<data_queue, log_is_running, log_file, first_frame,
                   log_finished, added, addedAtStop>>
    /\ UNCHANGED <<wpc, frame_data, emitted, worker_finished, gui_events, gpc,
                   frame_num, port_open>>
    /\ UNCHANGED <<syncVars, cfgVars, pow2Vars, startVars, structVars, scanVars>>

\* Lines 65-68, 75-76: json.dump raises after the comma was written, before
\* it wrote anything of the object or after it wrote a part of it; the
\* exception leaves the loop.
LoggerWriteRaises ==
    /\ lpc = "write"
    /\ \E part \in { <<>>, <<Tok("partial")>> } :
        file_content' = file_content \o Separator \o part
    /\ logErr' = TRUE
    /\ frame' = 0
    /\ lpc' = "finally"
    /\ UNCHANGED <<data_queue, log_is_running, log_file, first_frame,
                   log_finished, added, addedAtStop>>
    /\ UNCHANGED <<syncVars, appVars, cfgVars, pow2Vars, startVars, structVars, scanVars>>

\* Lines 77-82: the closing bracket when the file was opened; finished.
LoggerFinally ==
    /\ lpc = "finally"
    /\ IF log_file # "None"
       THEN /\ file_content' = Append(file_content, Tok("]"))
            /\ log_file' = "closed"
       ELSE UNCHANGED <<file_content, log_file>>
    /\ log_finished' = log_finished + 1
    /\ lpc' = "done"
    /\ UNCHANGED <<data_queue, log_is_running, first_frame, frame, added,
                   addedAtStop, logErr>>
    /\ UNCHANGED <<syncVars, appVars, cfgVars, pow2Vars, startVars, structVars, scanVars>>

LoggerStep ==
    \/ LoggerOpen
    \/ LoggerOpenRaises
    \/ LoggerCheckRunning
    \/ LoggerCheckEmpty
    \/ LoggerGet
    \/ LoggerGetTimeout
    \/ LoggerWrite
    \/ LoggerWriteRaises
    \/ LoggerFinally

\* The producer of the logger taken alone: add_data with the next frame.
ProducerAdd ==
    /\ Len(added) < MaxFrames
    /\ add_data(Len(added) + 1)
    /\ UNCHANGED <<log_is_running, log_file, file_content, first_frame, lpc,
                   frame, log_finished, addedAtStop, logErr>>
    /\ UNCHANGED <<syncVars, appVars, cfgVars, pow2Vars, startVars, structVars, scanVars>>

\* The owner of the logger taken alone: stop().
ProducerStop ==
    /\ log_is_running
    /\ stop
    /\ UNCHANGED <<data_queue, log_file, file_content, first_frame, lpc,
                   frame, log_finished, added, logErr>>
    /\ UNCHANGED <<syncVars, appVars, cfgVars, pow2Vars, startVars, structVars, scanVars>>

\* --------------------------------------------------- Worker (main.py)

\* Line 107-108: what the code tells apart in the result of
\* read_and_parse_frame: None, a frame whose header is empty, a frame with a
\* header, an exception.
ReadOutcomes == {"None", "EmptyHeader", "Frame", "Raised"}

\* Lines 98-102, 119-123, and the worker thread started at lines 141-146.
AppInit ==
    /\ worker_is_running = TRUE
    /\ wpc = "top"
    /\ frame_data = "None"
    /\ emitted = <<>>
    /\ worker_finished = 0
    /\ gui_events = <<>>
    /\ gpc = "idle"
    /\ frame_num = 0
    /\ port_open = TRUE

\* Lines 105, 113: the loop condition; finished is emitted when it is False.
WorkerLoopCheck ==
    /\ wpc = "top"
    /\ IF worker_is_running
       THEN /\ wpc' = "read"
            /\ UNCHANGED worker_finished
       ELSE /\ wpc' = "done"
            /\ worker_finished' = worker_finished + 1
    /\ UNCHANGED <<worker_is_running, frame_data, emitted, gui_events, gpc,
                   frame_num, port_open>>
    /\ UNCHANGED <<syncVars, logVars, cfgVars, pow2Vars, startVars, structVars, scanVars>>

\* Line 107: read_and_parse_frame returns or raises.
WorkerRead ==
    /\ wpc = "read"
    /\ \E o \in ReadOutcomes :
        /\ o = "Frame" => Len(emitted) < MaxFrames
        /\ frame_data' = o
        /\ wpc' = IF o = "Raised" THEN "except" ELSE "check"
    /\ UNCHANGED <<worker_is_running, emitted, worker_finished, gui_events,
                   gpc, frame_num, port_open>>
    /\ UNCHANGED <<syncVars, logVars, cfgVars, pow2Vars, startVars, structVars, scanVars>>

\* Line 107 has been called and has not returned: read_and_parse_frame is in
\* its header search, read_frame_header on the data port.
InHeaderSearch == wpc = "read"

\* read_frame_header, lines 77-80 and 119-120, under line 107 of main.py: the
\* read of one byte returns a byte that is not the first sync byte; it is
\* counted as discarded and the while True loop reads the next byte. Nothing
\* in the loop looks at the Worker's flag. The bytes 0 and 1 stand for a
\* stream that never forms a sync pattern.
WorkerScan ==
    /\ InHeaderSearch
    /\ scan_byte' = 1 - scan_byte
    /\ UNCHANGED <<syncVars, logVars, appVars, cfgVars, pow2Vars, startVars,
                   structVars>>

\* Lines 108-109: frame_ready is emitted for a frame with a header; the signal
\* is queued for the GUI thread, where update_visuals lives.
WorkerEmit ==
    /\ wpc = "check"
    /\ IF frame_data = "Frame"
       THEN /\ emitted' = Append(emitted, Len(emitted) + 1)
            /\ gui_events' = Append(gui_events, Len(emitted) + 1)
       ELSE UNCHANGED <<emitted, gui_events>>
    /\ wpc' = "top"
    /\ UNCHANGED <<worker_is_running, frame_data, worker_finished, gpc,
                   frame_num, port_open>>
    /\ UNCHANGED <<syncVars, logVars, cfgVars, pow2Vars, startVars, structVars, scanVars>>

\* An exception that ends run instead of the iteration.
WorkerExcept_Break ==
    /\ wpc = "except"
    /\ wpc' = "done"
    /\ worker_finished' = worker_finished + 1
    /\ UNCHANGED <<worker_is_running, frame_data, emitted, gui_events, gpc,
                   frame_num, port_open>>
    /\ UNCHANGED <<syncVars, logVars, cfgVars, pow2Vars, startVars, structVars, scanVars>>

\* Lines 110-112: the exception is printed, the loop goes on after a sleep.
WorkerExcept ==
    /\ wpc = "except"
    /\ wpc' = "top"
    /\ UNCHANGED <<worker_is_running, frame_data, emitted, worker_finished,
                   gui_events, gpc, frame_num, port_open>>
    /\ UNCHANGED <<syncVars, logVars, cfgVars, pow2Vars, startVars, structVars, scanVars>>

\* The steps of the worker thread.
WorkerStep ==
    \/ WorkerLoopCheck
    \/ WorkerRead
    \/ WorkerScan
    \/ WorkerEmit
    \/ WorkerExcept

\* ------------------------------------------- BSDVisualizer, the GUI thread

\* Lines 202-218: update_visuals, run by the GUI thread's event loop for the
\* oldest queued frame_ready signal (before the window is closed, or after
\* closeEvent has returned).
UpdateVisuals ==
    /\ gpc \in {"idle", "closed"}
    /\ gui_events # <<>>
    /\ frame_num' = frame_num + 1
    /\ add_data(Head(gui_events))
    /\ gui_events' = Tail(gui_events)
    /\ UNCHANGED <<worker_is_running, wpc, frame_data, emitted,
                   worker_finished, gpc, port_open>>
    /\ UNCHANGED <<log_is_running, log_file, file_content, first_frame, lpc,
                   frame, log_finished, addedAtStop, logErr>>
    /\ UNCHANGED <<syncVars, cfgVars, pow2Vars, startVars, structVars, scanVars>>

\* Lines 220-225: the window is closed; closeEvent first calls worker.stop()
\* (lines 115-116).
CloseStopWorker ==
    /\ gpc = "idle"
    /\ worker_is_running' = FALSE
    /\ gpc' = "stop_logger"
    /\ UNCHANGED <<wpc, frame_data, emitted, worker_finished, gui_events,
                   frame_num, port_open>>
    /\ UNCHANGED <<syncVars, logVars, cfgVars, pow2Vars, startVars, structVars, scanVars>>

\* Line 226: data_logger.stop().
CloseStopLogger ==
    /\ gpc = "stop_logger"
    /\ stop
    /\ gpc' = "wait_worker"
    /\ UNCHANGED <<data_queue, log_file, file_content, first_frame, lpc,
                   frame, log_finished, added, logErr>>
    /\ UNCHANGED <<worker_is_running, wpc, frame_data, emitted,
                   worker_finished, gui_events, frame_num, port_open>>
    /\ UNCHANGED <<syncVars, cfgVars, pow2Vars, startVars, structVars, scanVars>>

\* A closeEvent that goes on to the port without waiting for the worker
\* thread.
CloseWaitWorker_NoWait ==
    /\ gpc = "wait_worker"
    /\ gpc' = "wait_logger"
    /\ UNCHANGED <<worker_is_running, wpc, frame_data, emitted,
                   worker_finished, gui_events, frame_num, port_open>>
    /\ UNCHANGED <<syncVars, logVars, cfgVars, pow2Vars, startVars, structVars,
                   scanVars>>

\* Lines 228, 231: worker_thread.quit() and wait(): returns when run has
\* returned.
CloseWaitWorker ==
    /\ gpc = "wait_worker"
    /\ wpc = "done"
    /\ gpc' = "wait_logger"
    /\ UNCHANGED <<worker_is_running, wpc, frame_data, emitted,
                   worker_finished, gui_events, frame_num, port_open>>
    /\ UNCHANGED <<syncVars, logVars, cfgVars, pow2Vars, startVars, structVars, scanVars>>

\* Lines 229, 232: logger_thread.quit() and wait().
CloseWaitLogger ==
    /\ gpc = "wait_logger"
    /\ lpc = "done"
    /\ gpc' = "close_port"
    /\ UNCHANGED <<worker_is_running, wpc, frame_data, emitted,
                   worker_finished, gui_events, frame_num, port_open>>
    /\ UNCHANGED <<syncVars, logVars, cfgVars, pow2Vars, startVars, structVars, scanVars>>

\* Lines 234-238: the port is closed when it is open; the event is accepted.
ClosePort ==
    /\ gpc = "close_port"
    /\ port_open' = FALSE
    /\ gpc' = "closed"
    /\ UNCHANGED <<worker_is_running, wpc, frame_data, emitted,
                   worker_finished, gui_events, frame_num>>
    /\ UNCHANGED <<syncVars, logVars, cfgVars, pow2Vars, startVars, structVars, scanVars>>

\* The steps the GUI thread takes by itself: the slots its event loop runs
\* and the rest of closeEvent once the window was closed. Closing the window
\* (CloseStopWorker) is the user's step.
GuiStep ==
    \/ UpdateVisuals
    \/ CloseStopLogger
    \/ CloseWaitWorker
    \/ CloseWaitLogger
    \/ ClosePort

\* ------------------------------------------------------------ parse_cfg

\* A number as Python holds it: an int, or the float that true division gives.
IntNum(n) == [float |-> FALSE, num |-> n, den |-> 1]
TrueDiv(a, b) == [float |-> TRUE, num |-> a, den |-> b]

\* Lines 8-49: RadarParams(), every field at its default; a dict that holds no
\* key yet has set = FALSE.
RadarParams ==
    [ channelCfg     |-> [set |-> FALSE, rxChannelEn |-> 0, txChannelEn |-> 0],
      chirpComnCfg   |-> [set |-> FALSE, digOutputSampRate |-> IntNum(0),
                          numAdcSamples |-> 0, chirpRampEndTime |-> 0],
      chirpTimingCfg |-> [set |-> FALSE, idleTime |-> 0, chirpSlope |-> 0,
                          startFreq |-> 0],
      frameCfg       |-> [numLoops |-> 0, chirpStartIdx |-> 0,
                          chirpEndIdx |-> 0, framePeriodicity |-> 0],
      profileCfg     |-> [startFreq |-> 0, idleTime |-> <<0, 0>>,
                          rampEndTime |-> 0, freqSlopeConst |-> 0,
                          numAdcSamples |-> 0, digOutSampleRate |-> IntNum(0)],
      dataPath       |-> [numTxAnt |-> 0, numRxAnt |-> 0,
                          numChirpsPerFrame |-> 0,
                          numDopplerChirps |-> IntNum(0),
                          numDopplerBins |-> 0, numRangeBins |-> 0,
                          numValidRangeBins |-> 0],
      guiMonitor     |-> <<>>,
      trackingCfg    |-> <<>>,
      boundaryBox    |-> <<>>,
      sensorPosition |-> <<>> ]

\* A command line after split(): parts[0] is command, parts[i] is args[i].
Line(command, args) == [command |-> command, args |-> args]

\* The bits of |x| counted up to and including the highest one.
RECURSIVE PopCount_BitLength(_)
PopCount_BitLength(x) ==
    IF x = 0 THEN 0
    ELSE IF x < 0 THEN PopCount_BitLength(-x)
    ELSE 1 + PopCount_BitLength(x \div 2)

\* Lines 94-95: bin(x).count('1'), the '1' digits of the binary numeral of
\* |x| (bin(-5) is '-0b101').
RECURSIVE PopCount(_)
PopCount(x) ==
    IF x = 0 THEN 0
    ELSE IF x < 0 THEN PopCount(-x)
    ELSE (x % 2) + PopCount(x \div 2)

\* int.bit_length(): the bits of |x|.
RECURSIVE BitLength(_)
BitLength(x) ==
    IF x = 0 THEN 0
    ELSE IF x < 0 THEN BitLength(-x)
    ELSE 1 + BitLength(x \div 2)

RECURSIVE Pow2(_)
Pow2(n) == IF n = 0 THEN 1 ELSE 2 * Pow2(n - 1)

\* Lines 150-151: 1 << (x - 1).bit_length().
InlinePow2(x) == Pow2(BitLength(x - 1))

Outcome(error, p) == [error |-> error, params |-> p]

\* A parser that rejects a command name it does not know.
UnknownCommand_Rejects(p, line) == Outcome("ValueError", p)

\* Lines 91-135: a command that matches no branch of the if/elif chain
\* changes nothing.
UnknownCommand(p, line) == Outcome("None", p)

\* Lines 88-135: what one line does to params, or the exception it raises
\* (IndexError for a missing argument, ZeroDivisionError at line 98).
ParseLineEffect(p, line) ==
    LET a == line.args
        n == Len(line.args)
    IN  CASE line.command = "channelCfg" ->
                IF n < 2 THEN Outcome("IndexError", p)
                ELSE Outcome("None",
                        [p EXCEPT !.channelCfg =
                                    [set |-> TRUE, rxChannelEn |-> a[1],
                                     txChannelEn |-> a[2]],
                                  !.dataPath.numRxAnt = PopCount(a[1]),
                                  !.dataPath.numTxAnt = PopCount(a[2])])
          [] line.command = "chirpComnCfg" ->
                IF n < 1 THEN Outcome("IndexError", p)
                ELSE IF a[1] = 0 THEN Outcome("ZeroDivisionError", p)
                ELSE IF n < 6 THEN Outcome("IndexError", p)
                ELSE Outcome("None",
                        [p EXCEPT !.chirpComnCfg =
                                    [set |-> TRUE,
                                     digOutputSampRate |-> TrueDiv(100, a[1]),
                                     numAdcSamples |-> a[4],
                                     chirpRampEndTime |-> a[6]]])
          [] line.command = "chirpTimingCfg" ->
                IF n < 5 THEN Outcome("IndexError", p)
                ELSE Outcome("None",
                        [p EXCEPT !.chirpTimingCfg =
                                    [set |-> TRUE, idleTime |-> a[1],
                                     chirpSlope |-> a[4], startFreq |-> a[5]]])
          [] line.command = "frameCfg" ->
                IF n < 5 THEN Outcome("IndexError", p)
                ELSE Outcome("None",
                        [p EXCEPT !.frameCfg =
                                    [numLoops |-> a[3], chirpStartIdx |-> a[1],
                                     chirpEndIdx |-> a[2],
                                     framePeriodicity |-> a[5]]])
          [] line.command = "guiMonitor" ->
                IF n < 6 THEN Outcome("IndexError", p)
                ELSE Outcome("None",
                        [p EXCEPT !.guiMonitor = <<a[1], a[2], a[4], a[6]>>])
          [] line.command = "trackingCfg" ->
                Outcome("None", [p EXCEPT !.trackingCfg = a])
          [] line.command = "boundaryBox" ->
                Outcome("None", [p EXCEPT !.boundaryBox = a])
          [] line.command = "sensorPosition" ->
                IF n < 5 THEN Outcome("IndexError", p)
                ELSE Outcome("None",
                        [p EXCEPT !.sensorPosition = SubSeq(a, 1, 5)])
          [] OTHER -> UnknownCommand(p, line)

\* Lines 140-145: the profile; a KeyError at line 140 when chirpTimingCfg was
\* never given, at line 142, after startFreq and idleTime are set, when
\* chirpComnCfg was never given.
DeriveProfile(p) ==
    IF ~p.chirpTimingCfg.set
    THEN Outcome("KeyError", p)
    ELSE IF ~p.chirpComnCfg.set
    THEN Outcome("KeyError",
            [p EXCEPT !.profileCfg.startFreq = p.chirpTimingCfg.startFreq,
                      !.profileCfg.idleTime = <<p.chirpTimingCfg.idleTime,
                                                p.chirpTimingCfg.idleTime>>])
    ELSE Outcome("None",
            [p EXCEPT !.profileCfg =
                [startFreq |-> p.chirpTimingCfg.startFreq,
                 idleTime |-> <<p.chirpTimingCfg.idleTime,
                                p.chirpTimingCfg.idleTime>>,
                 rampEndTime |-> p.chirpComnCfg.chirpRampEndTime,
                 freqSlopeConst |-> p.chirpTimingCfg.chirpSlope,
                 numAdcSamples |-> p.chirpComnCfg.numAdcSamples,
                 digOutSampleRate |->
                    TrueDiv(1000 * p.chirpComnCfg.digOutputSampRate.num,
                            p.chirpComnCfg.digOutputSampRate.den)]])

\* A division that gives inf for a zero divisor.
DivisionOutcome_Inf(a, b) == "None"

\* Line 149: a / b raises ZeroDivisionError when b is 0.
DivisionOutcome(a, b) == IF b = 0 THEN "ZeroDivisionError" ELSE "None"

\* Lines 148-152: the data path. Line 149 divides with /, which gives a
\* float (or ZeroDivisionError); line 150 calls bit_length on that value,
\* which a float does not have.
DeriveDataPath(p) ==
    LET chirps == (p.frameCfg.chirpEndIdx - p.frameCfg.chirpStartIdx + 1)
                        * p.frameCfg.numLoops
        p1 == [p EXCEPT !.dataPath.numChirpsPerFrame = chirps]
        doppler == TrueDiv(chirps, p.dataPath.numTxAnt)
        p2 == [p1 EXCEPT !.dataPath.numDopplerChirps = doppler]
        rangeBins == InlinePow2(p.profileCfg.numAdcSamples)
    IN  IF DivisionOutcome(chirps, p.dataPath.numTxAnt) # "None"
        THEN Outcome(DivisionOutcome(chirps, p.dataPath.numTxAnt), p1)
        ELSE IF doppler.float THEN Outcome("AttributeError", p2)
        ELSE Outcome("None",
                [p2 EXCEPT !.dataPath.numDopplerBins = InlinePow2(doppler.num),
                           !.dataPath.numRangeBins = rangeBins,
                           !.dataPath.numValidRangeBins = rangeBins \div 2])

\* Lines 137-166: the derived parameters, in the order of the code.
Derive(p) ==
    LET prof == DeriveProfile(p)
    IN  IF prof.error # "None" THEN prof ELSE DeriveDataPath(prof.params)

\* What the caller gets: the RadarParams returned, or the exception alone.
CallResult(o) ==
    IF o.error = "None" THEN [error |-> "None", returned |-> o.params]
    ELSE [error |-> o.error, returned |-> RadarParams]

ChannelCfg15_3 == Line("channelCfg", <<15, 3, 0>>)
ChannelCfg15_0 == Line("channelCfg", <<15, 0, 0>>)
ChannelCfg15_7 == Line("channelCfg", <<15, 7, 0>>)
ChannelCfg5_6 == Line("channelCfg", <<5, 6, 0>>)
ChirpComnCfg == Line("chirpComnCfg", <<8, 0, 0, 256, 1, 30, 0>>)
ChirpTimingCfg == Line("chirpTimingCfg", <<6, 32, 0, 40, 76>>)
FrameCfg == Line("frameCfg", <<0, 15, 4, 0, 0, 100>>)
ShortFrameCfg == Line("frameCfg", <<0, 15>>)
SensorStart == Line("sensorStart", <<>>)
SensorStop == Line("sensorStop", <<0>>)
BaudRateLine == Line("baudRate", <<1250000>>)

\* The command lists parse_cfg is called on.
CompleteCfg == <<ChannelCfg15_3, ChirpComnCfg, ChirpTimingCfg, FrameCfg, SensorStart>>
NoTxCfg == <<ChannelCfg15_0, ChirpComnCfg, ChirpTimingCfg, FrameCfg>>
NoChannelCfg == <<ChirpComnCfg, ChirpTimingCfg, FrameCfg>>
NoTimingCfg == <<ChannelCfg15_3, ChirpComnCfg, FrameCfg>>
TruncatedCfg == <<ChannelCfg15_3, ChirpComnCfg, ChirpTimingCfg, ShortFrameCfg>>
EmptyCfg == <<>>
NoFrameCfg == <<ChannelCfg15_3, ChirpComnCfg, ChirpTimingCfg>>
NoComnCfg == <<ChannelCfg15_3, ChirpTimingCfg, FrameCfg>>
PlainCfg == <<ChannelCfg15_3, ChirpComnCfg, ChirpTimingCfg, FrameCfg>>
PaddedCfg == <<SensorStop, ChannelCfg15_3, BaudRateLine, ChirpComnCfg,
               ChirpTimingCfg, SensorStop, FrameCfg, SensorStart>>
PaddedNoTxCfg == <<SensorStop, ChannelCfg15_0, ChirpComnCfg, BaudRateLine,
                   ChirpTimingCfg, FrameCfg, SensorStart>>
Cfg15_7 == <<ChannelCfg15_7, ChirpComnCfg, ChirpTimingCfg, FrameCfg>>
Cfg5_6 == <<ChannelCfg5_6, ChirpComnCfg, ChirpTimingCfg, FrameCfg>>

CfgLists == {CompleteCfg, NoTxCfg, NoChannelCfg, NoTimingCfg, TruncatedCfg,
             EmptyCfg, NoFrameCfg, NoComnCfg, PlainCfg, PaddedCfg,
             PaddedNoTxCfg, Cfg15_7, Cfg5_6}

\* A params object that outlives the call.
ParamsAtCall_Stale == params

\* Line 85: params = RadarParams(), a new object for every call.
ParamsAtCall == RadarParams

CfgInit ==
    /\ cfg_pc = "idle"
    /\ cli_cfg = <<>>
    /\ line_no = 1
    /\ params = RadarParams
    /\ cfg_calls = <<>>

Finish(o) ==
    /\ cfg_calls' = Append(cfg_calls, [cfg |-> cli_cfg, result |-> CallResult(o)])
    /\ params' = o.params
    /\ cfg_pc' = "idle"
    /\ UNCHANGED <<cli_cfg, line_no>>

\* Lines 74-85: parse_cfg is called on a command list.
ParseCall ==
    /\ cfg_pc = "idle"
    /\ Len(cfg_calls) < MaxCalls
    /\ \E cfg \in CfgLists : cli_cfg' = cfg
    /\ params' = ParamsAtCall
    /\ line_no' = 1
    /\ cfg_pc' = "lines"
    /\ UNCHANGED cfg_calls
    /\ UNCHANGED <<syncVars, logVars, appVars, pow2Vars, startVars, structVars, scanVars>>

\* Lines 87-135: one turn of the for loop; an exception ends the call.
ParseLine ==
    /\ cfg_pc = "lines"
    /\ line_no <= Len(cli_cfg)
    /\ LET o == ParseLineEffect(params, cli_cfg[line_no])
       IN  IF o.error = "None"
           THEN /\ params' = o.params
                /\ line_no' = line_no + 1
                /\ UNCHANGED <<cfg_pc, cli_cfg, cfg_calls>>
           ELSE Finish(o)
    /\ UNCHANGED <<syncVars, logVars, appVars, pow2Vars, startVars, structVars, scanVars>>

\* Lines 137-166: after the last line, the derived parameters and the return.
ParseDerive ==
    /\ cfg_pc = "lines"
    /\ line_no > Len(cli_cfg)
    /\ Finish(Derive(params))
    /\ UNCHANGED <<syncVars, logVars, appVars, pow2Vars, startVars, structVars, scanVars>>

\* --------------------------------------------------------- pow2_roundup

\* A loop that goes on while x >= y.
LoopCond_Ge(xx, yy) == xx >= yy

\* Line 46: while x > y.
LoopCond(xx, yy) == xx > yy

\* A loop body that triples y.
DoubleStep_Triple(yy) == yy * 3

\* Line 47: y *= 2.
DoubleStep(yy) == yy * 2

\* The integers pow2_roundup is called on.
Pow2Args == (-MaxPow2Arg) .. MaxPow2Arg

\* Lines 34-45: pow2_roundup(x) has been entered and y = 1 has run.
Pow2Init ==
    /\ pow2_x \in Pow2Args
    /\ pow2_y = 1
    /\ pow2_pc = "loop"
    /\ pow2_calls = <<>>

\* Lines 46-47: one turn of the while loop.
Pow2Double ==
    /\ pow2_pc = "loop"
    /\ LoopCond(pow2_x, pow2_y)
    /\ pow2_y' = DoubleStep(pow2_y)
    /\ UNCHANGED <<pow2_pc, pow2_x, pow2_calls>>
    /\ UNCHANGED <<syncVars, logVars, appVars, cfgVars, startVars, structVars, scanVars>>

\* Lines 46 and 48: the loop condition fails and y is returned.
Pow2Return ==
    /\ pow2_pc = "loop"
    /\ ~LoopCond(pow2_x, pow2_y)
    /\ pow2_calls' = Append(pow2_calls, [x |-> pow2_x, y |-> pow2_y])
    /\ pow2_pc' = "returned"
    /\ UNCHANGED <<pow2_x, pow2_y>>
    /\ UNCHANGED <<syncVars, logVars, appVars, cfgVars, startVars, structVars, scanVars>>

\* Lines 34-45 again: pow2_roundup is called on the value it returned.
Pow2CallOnResult ==
    /\ pow2_pc = "returned"
    /\ Len(pow2_calls) < MaxPow2Calls
    /\ pow2_x' = pow2_y
    /\ pow2_y' = 1
    /\ pow2_pc' = "loop"
    /\ UNCHANGED pow2_calls
    /\ UNCHANGED <<syncVars, logVars, appVars, cfgVars, startVars, structVars, scanVars>>

\* ------------------- configure_sensor_and_params and __main__ (main.py)

INITIAL_BAUD_RATE == 115200

UartBaudRateLine == Line("uartbaudRate", <<921600>>)
BaudRateLine921600 == Line("baudRate", <<921600>>)
BaudRateNoArg == Line("baudRate", <<>>)

\* The command names of the lists below that begin with "baudRate", and
\* those that have "baudRate" somewhere in them.
NamesStartingWithBaudRate == {"baudRate"}
NamesContainingBaudRate == {"baudRate", "uartbaudRate"}

\* Line 247: command.startswith("baudRate").
StartsWithBaudRate(line) == line.command \in NamesStartingWithBaudRate

\* Line 255: "baudRate" in command.
ContainsBaudRate(line) == line.command \in NamesContainingBaudRate

\* The command lists configure_sensor_and_params sends.
NoBaudList == <<SensorStop, ChannelCfg15_3, SensorStart>>
BaudFirstList == <<BaudRateLine, SensorStop, SensorStart>>
BaudLastList == <<SensorStop, BaudRateLine>>
TwoBaudList == <<SensorStop, BaudRateLine, ChannelCfg15_3, BaudRateLine921600,
                 SensorStart>>
UartBaudList == <<SensorStop, UartBaudRateLine, ChannelCfg15_3, BaudRateLine,
                  SensorStart>>
BadBaudList == <<SensorStop, BaudRateNoArg>>

StartupLists == {PaddedCfg, NoBaudList, BaudFirstList, BaudLastList,
                 TwoBaudList, UartBaudList, BadBaudList}

\* h_data_port when it is None.
NoPort == [handle |-> FALSE, is_open |-> FALSE, baudrate |-> 0]

\* A control port that is handed out without looking at the port list.
configure_control_port_Unchecked(env, baud_rate) ==
    [handle |-> TRUE, is_open |-> TRUE, baudrate |-> baud_rate]

\* hw_comms_utils.py lines 7-38: None when the port is not in the list of
\* lines 21-24 or when serial.Serial raises SerialException (lines 36-38),
\* the open port otherwise.
configure_control_port(env, baud_rate) ==
    IF env = "Listed"
    THEN [handle |-> TRUE, is_open |-> TRUE, baudrate |-> baud_rate]
    ELSE NoPort

\* A handler that swallows the exception and goes on with the loop.
BaudErrorHandler_Continue == [close |-> FALSE, ret |-> "pending", next |-> "send"]

\* Lines 259-262: except Exception: close the port and return None, None.
BaudErrorHandler == [close |-> TRUE, ret |-> "NoneNone", next |-> "main"]

\* The first command of the list that starts with "baudRate", 0 if none.
FirstBaudRateCommand(cfg) ==
    IF \E i \in 1..Len(cfg) : StartsWithBaudRate(cfg[i])
    THEN CHOOSE i \in 1..Len(cfg) :
            /\ StartsWithBaudRate(cfg[i])
            /\ \A j \in 1..(i - 1) : ~StartsWithBaudRate(cfg[j])
    ELSE 0

\* Line 244 has returned: cli_cfg is not empty and params holds RadarParams.
StartInit ==
    /\ st_pc = "scan"
    /\ commands \in StartupLists
    /\ target_baud_rate = INITIAL_BAUD_RATE
    /\ cmd_idx = 1
    /\ h_data_port = NoPort
    /\ written = <<>>
    /\ baud_sets = <<>>
    /\ buffers_reset = FALSE
    /\ port_env \in {"Listed", "NotListed", "OpenRaises"}
    /\ fault \in {"none", "baud", "write"}
    /\ st_ret = "pending"
    /\ threads_started = FALSE

\* Lines 245-249: target_baud_rate is taken from the first command that
\* starts with "baudRate".
ScanTarget ==
    /\ st_pc = "scan"
    /\ LET i == FirstBaudRateCommand(commands)
       IN  /\ i > 0 => Len(commands[i].args) >= 1
           /\ target_baud_rate' =
                    IF i = 0 THEN INITIAL_BAUD_RATE ELSE commands[i].args[1]
    /\ st_pc' = "open"
    /\ UNCHANGED <<commands, cmd_idx, h_data_port, written, baud_sets,
                   buffers_reset, port_env, fault, st_ret, threads_started>>
    /\ UNCHANGED <<syncVars, logVars, appVars, cfgVars, pow2Vars, structVars, scanVars>>

\* Line 248: command.split()[1] of a baudRate command without an argument
\* raises IndexError, which nothing catches.
ScanRaises ==
    /\ st_pc = "scan"
    /\ LET i == FirstBaudRateCommand(commands)
       IN  i > 0 /\ Len(commands[i].args) < 1
    /\ st_pc' = "raised"
    /\ UNCHANGED <<commands, target_baud_rate, cmd_idx, h_data_port, written,
                   baud_sets, buffers_reset, port_env, fault, st_ret,
                   threads_started>>
    /\ UNCHANGED <<syncVars, logVars, appVars, cfgVars, pow2Vars, structVars, scanVars>>

\* Lines 250-251 with an open port: go on to the send loop.
ControlPortOpened ==
    /\ st_pc = "open"
    /\ LET port == configure_control_port(port_env, INITIAL_BAUD_RATE)
       IN  /\ port.handle
           /\ h_data_port' = port
    /\ st_pc' = "send"
    /\ UNCHANGED <<commands, target_baud_rate, cmd_idx, written, baud_sets,
                   buffers_reset, port_env, fault, st_ret, threads_started>>
    /\ UNCHANGED <<syncVars, logVars, appVars, cfgVars, pow2Vars, structVars, scanVars>>

\* Lines 250-251 with None: if not h_data_port: return None, None.
ControlPortNone ==
    /\ st_pc = "open"
    /\ LET port == configure_control_port(port_env, INITIAL_BAUD_RATE)
       IN  /\ ~port.handle
           /\ h_data_port' = port
    /\ st_ret' = "NoneNone"
    /\ st_pc' = "main"
    /\ UNCHANGED <<commands, target_baud_rate, cmd_idx, written, baud_sets,
                   buffers_reset, port_env, fault, threads_started>>
    /\ UNCHANGED <<syncVars, logVars, appVars, cfgVars, pow2Vars, structVars, scanVars>>

\* Lines 252-258: one turn of the send loop: the command is written at the
\* port's present baud rate; after a command that contains "baudRate" the
\* port is set to target_baud_rate.
SendCommand ==
    /\ st_pc = "send"
    /\ cmd_idx <= Len(commands)
    /\ written' = Append(written, [idx |-> cmd_idx, baud |-> h_data_port.baudrate])
    /\ IF ContainsBaudRate(commands[cmd_idx])
       THEN /\ h_data_port' = [h_data_port EXCEPT !.baudrate = target_baud_rate]
            /\ baud_sets' = Append(baud_sets, [after |-> cmd_idx,
                                               rate |-> target_baud_rate,
                                               ok |-> TRUE])
       ELSE UNCHANGED <<h_data_port, baud_sets>>
    /\ cmd_idx' = cmd_idx + 1
    /\ UNCHANGED <<st_pc, commands, target_baud_rate, buffers_reset, port_env,
                   fault, st_ret, threads_started>>
    /\ UNCHANGED <<syncVars, logVars, appVars, cfgVars, pow2Vars, structVars, scanVars>>

\* Lines 252-262: the command is written, the assignment to baudrate raises,
\* and the except branch closes the port and returns None, None.
SendBaudFails ==
    /\ st_pc = "send"
    /\ cmd_idx <= Len(commands)
    /\ fault = "baud"
    /\ ContainsBaudRate(commands[cmd_idx])
    /\ written' = Append(written, [idx |-> cmd_idx, baud |-> h_data_port.baudrate])
    /\ baud_sets' = Append(baud_sets, [after |-> cmd_idx,
                                       rate |-> target_baud_rate, ok |-> FALSE])
    /\ h_data_port' = [h_data_port EXCEPT
                            !.is_open = IF BaudErrorHandler.close THEN FALSE ELSE @]
    /\ st_ret' = BaudErrorHandler.ret
    /\ st_pc' = BaudErrorHandler.next
    /\ cmd_idx' = IF BaudErrorHandler.next = "send" THEN cmd_idx + 1 ELSE cmd_idx
    /\ UNCHANGED <<commands, target_baud_rate, buffers_reset, port_env, fault,
                   threads_started>>
    /\ UNCHANGED <<syncVars, logVars, appVars, cfgVars, pow2Vars, structVars, scanVars>>

\* Line 253: write raises serial.SerialException, which nothing catches; the
\* port stays open and nothing is returned.
SendWriteRaises ==
    /\ st_pc = "send"
    /\ cmd_idx <= Len(commands)
    /\ fault = "write"
    /\ st_pc' = "raised"
    /\ UNCHANGED <<commands, target_baud_rate, cmd_idx, h_data_port, written,
                   baud_sets, buffers_reset, port_env, fault, st_ret,
                   threads_started>>
    /\ UNCHANGED <<syncVars, logVars, appVars, cfgVars, pow2Vars, structVars, scanVars>>

\* Lines 263-264 and hw_comms_utils.py lines 40-58: after the last command
\* the buffers of the open port are reset and params, h_data_port returned.
SendDone ==
    /\ st_pc = "send"
    /\ cmd_idx > Len(commands)
    /\ buffers_reset' = (h_data_port.handle /\ h_data_port.is_open)
    /\ st_ret' = "ParamsPort"
    /\ st_pc' = "main"
    /\ UNCHANGED <<commands, target_baud_rate, cmd_idx, h_data_port, written,
                   baud_sets, port_env, fault, threads_started>>
    /\ UNCHANGED <<syncVars, logVars, appVars, cfgVars, pow2Vars, structVars, scanVars>>

\* Lines 267-273 and 141-154: params and h_data_port are both there, so
\* BSDVisualizer is built and starts the worker and the logger thread.
MainStart ==
    /\ st_pc = "main"
    /\ st_ret = "ParamsPort"
    /\ threads_started' = TRUE
    /\ st_pc' = "done"
    /\ UNCHANGED <<commands, target_baud_rate, cmd_idx, h_data_port, written,
                   baud_sets, buffers_reset, port_env, fault, st_ret>>
    /\ UNCHANGED <<syncVars, logVars, appVars, cfgVars, pow2Vars, structVars, scanVars>>

\* Lines 267-269: (None, None) came back, the if is not taken and the
\* program ends.
MainSkip ==
    /\ st_pc = "main"
    /\ st_ret = "NoneNone"
    /\ st_pc' = "done"
    /\ UNCHANGED <<commands, target_baud_rate, cmd_idx, h_data_port, written,
                   baud_sets, buffers_reset, port_env, fault, st_ret,
                   threads_started>>
    /\ UNCHANGED <<syncVars, logVars, appVars, cfgVars, pow2Vars, structVars, scanVars>>

\* ------------------------------------------------------------ read_to_struct
\* A format of the struct module: the bytes it takes from the buffer and the
\* values it adds to the tuple struct.unpack returns. "x" is a pad byte and
\* adds none; a count in front of the character repeats it.
FormatB == [char |-> "B", size |-> 1, values |-> 1]
FormatH == [char |-> "H", size |-> 2, values |-> 1]
FormatX == [char |-> "x", size |-> 1, values |-> 0]
Format2B == [char |-> "2B", size |-> 2, values |-> 2]

\* An item of the template: field_name -> ('format_char', num_bytes).
Field(name, format, width) ==
    [name |-> name, format |-> format, width |-> width]

\* The templates read_to_struct is called on; a template is a dict, so its
\* names differ and its order is the order of insertion. In turn: two fields
\* and one field whose widths are the sizes of their formats, the empty
\* template, a field declared 4 bytes wide for the 2-byte format "H", a pad
\* byte in front of a field, and a format that stands for two values.
Templates ==
    { <<Field("version", FormatH, 2), Field("numObj", FormatB, 1)>>,
      <<Field("flag", FormatB, 1)>>,
      <<>>,
      <<Field("len", FormatH, 4)>>,
      <<Field("pad", FormatX, 1), Field("id", FormatB, 1)>>,
      <<Field("pair", Format2B, 2), Field("tag", FormatB, 1)>> }

\* The buffers: every sequence of the bytes 0 and 1 of length 0 .. MaxBufLen.
RECURSIVE BuffersOfLen(_)
BuffersOfLen(n) ==
    IF n = 0 THEN {<<>>}
    ELSE {b \o <<v>> : b \in BuffersOfLen(n - 1), v \in {0, 1}}
Buffers == UNION {BuffersOfLen(n) : n \in 0..MaxBufLen}

\* Line 179: sum(item[1] for item in struct_def.values()).
RECURSIVE get_byte_length_from_struct(_)
get_byte_length_from_struct(def) ==
    IF def = <<>> THEN 0
    ELSE Head(def).width + get_byte_length_from_struct(Tail(def))

\* struct.calcsize of the format string of line 197: "<" packs the formats
\* without padding, so the size is the sum of the sizes of the formats.
RECURSIVE CalcSize(_)
CalcSize(def) ==
    IF def = <<>> THEN 0
    ELSE Head(def).format.size + CalcSize(Tail(def))

\* The value of an unsigned little-endian integer.
RECURSIVE LittleEndian(_)
LittleEndian(bytes) ==
    IF bytes = <<>> THEN 0
    ELSE Head(bytes) + 256 * LittleEndian(Tail(bytes))

\* The values of one format: "H" and "B" give one integer, "2B" one integer
\* for each byte, "x" none.
FormatValues(format, bytes) ==
    IF format.values = 0 THEN <<>>
    ELSE IF format.values = 1 THEN <<LittleEndian(bytes)>>
    ELSE [i \in 1..Len(bytes) |-> bytes[i]]

\* struct.unpack on a buffer of the right length: the values of the formats
\* in the order of the format string.
RECURSIVE Unpack(_, _)
Unpack(def, bytes) ==
    IF def = <<>> THEN <<>>
    ELSE FormatValues(Head(def).format,
                      SubSeq(bytes, 1, Head(def).format.size))
         \o Unpack(Tail(def),
                   SubSeq(bytes, Head(def).format.size + 1, Len(bytes)))

\* struct.unpack raises struct.error unless the buffer has the size of the
\* format string.
UnpackAccepts(def, bytes) == Len(bytes) = CalcSize(def)

\* Lines 193-211. struct.error gives None (lines 207-209); the loop of lines
\* 203-205 takes unpacked_data[i] for the i-th name, and an index past the
\* tuple raises IndexError, which line 207 does not catch.
read_to_struct(bytes, def) ==
    IF ~UnpackAccepts(def, bytes)
    THEN [kind |-> "None", items |-> <<>>]
    ELSE LET unpacked_data == Unpack(def, bytes)
         IN  IF Len(unpacked_data) < Len(def)
             THEN [kind |-> "IndexError", items |-> <<>>]
             ELSE [kind |-> "dict",
                   items |-> [i \in 1..Len(def) |->
                                 [name |-> def[i].name,
                                  value |-> unpacked_data[i]]]]

NotCalled == [kind |-> "pending", items |-> <<>>]

StructInit ==
    /\ rts_pc = "call"
    /\ byte_array \in Buffers
    /\ struct_def \in Templates
    /\ rts_result = NotCalled

\* One call of read_to_struct(byte_array, struct_def).
ReadToStruct ==
    /\ rts_pc = "call"
    /\ rts_result' = read_to_struct(byte_array, struct_def)
    /\ rts_pc' = IF rts_result'.kind = "IndexError" THEN "raised"
                 ELSE "returned"
    /\ UNCHANGED <<byte_array, struct_def>>
    /\ UNCHANGED <<syncVars, logVars, appVars, cfgVars, pow2Vars, startVars,
                   scanVars>>

\* ---------------------------------------------------------- specifications

\* The parts a specification does not run keep these values.
SyncIdle ==
    /\ stream = <<>>
    /\ frame_header_length_bytes = SyncLen
    /\ portFails = FALSE
    /\ pos = 0
    /\ stalls = 0
    /\ pc = "returned"
    /\ byte = <<>>
    /\ full_pattern = <<>>
    /\ out_of_sync_bytes = 0
    /\ rx_header = None
    /\ byte_count = 0
    /\ lastRead = [site |-> "none", req |-> 0, got |-> 0, err |-> FALSE]
    /\ mismatches = 0

\* The startup is over.
StartIdle ==
    /\ st_pc = "done"
    /\ commands = <<>>
    /\ target_baud_rate = INITIAL_BAUD_RATE
    /\ cmd_idx = 1
    /\ h_data_port = NoPort
    /\ written = <<>>
    /\ baud_sets = <<>>
    /\ buffers_reset = FALSE
    /\ port_env = "Listed"
    /\ fault = "none"
    /\ st_ret = "pending"
    /\ threads_started = FALSE

\* read_to_struct is not called.
StructIdle ==
    /\ rts_pc = "returned"
    /\ byte_array = <<>>
    /\ struct_def = <<>>
    /\ rts_result = NotCalled

\* The Worker's header search has read nothing.
ScanIdle == scan_byte = 0

\* pow2_roundup is not running.
Pow2Idle ==
    /\ pow2_pc = "returned"
    /\ pow2_x = 0
    /\ pow2_y = 1
    /\ pow2_calls = <<>>

InitSync == SyncInit /\ LogInit /\ AppInit /\ CfgInit /\ Pow2Idle /\ StartIdle
    /\ StructIdle /\ ScanIdle

NextSync ==
    \/ SearchTimeout
    \/ SearchError
    \/ SearchByte
    \/ MatchRead
    \/ HeaderRead
    \/ BlockReadError

SpecSync == InitSync /\ [][NextSync]_vars

SpecSyncFair == SpecSync /\ WF_vars(NextSync)


\* parse_cfg called again and again.
InitCfg == SyncIdle /\ LogInit /\ AppInit /\ CfgInit /\ Pow2Idle /\ StartIdle
    /\ StructIdle /\ ScanIdle

NextCfg ==
    \/ ParseCall
    \/ ParseLine
    \/ ParseDerive

SpecCfg == InitCfg /\ [][NextCfg]_vars

\* pow2_roundup called on an integer and then on its own result.
InitPow2 == SyncIdle /\ LogInit /\ AppInit /\ CfgInit /\ Pow2Init /\ StartIdle
    /\ StructIdle /\ ScanIdle

NextPow2 ==
    \/ Pow2Double
    \/ Pow2Return
    \/ Pow2CallOnResult

SpecPow2 == InitPow2 /\ [][NextPow2]_vars

\* configure_sensor_and_params from line 245 on, then __main__.
InitStruct == SyncIdle /\ LogInit /\ AppInit /\ CfgInit /\ Pow2Idle /\ StartIdle
    /\ StructInit /\ ScanIdle

NextStruct == ReadToStruct

SpecStruct == InitStruct /\ [][NextStruct]_vars

InitStartup == SyncIdle /\ LogInit /\ AppInit /\ CfgInit /\ Pow2Idle /\ StartInit
    /\ StructIdle /\ ScanIdle

NextStartup ==
    \/ ScanTarget
    \/ ScanRaises
    \/ ControlPortOpened
    \/ ControlPortNone
    \/ SendCommand
    \/ SendBaudFails
    \/ SendWriteRaises
    \/ SendDone
    \/ MainStart
    \/ MainSkip

SpecStartup == InitStartup /\ [][NextStartup]_vars

\* DataLogger with a producer that calls add_data and stop at any time.
InitLogger == SyncIdle /\ LogInit /\ AppInit /\ CfgInit /\ Pow2Idle /\ StartIdle
    /\ StructIdle /\ ScanIdle

NextLogger ==
    \/ LoggerStep
    \/ ProducerAdd
    \/ ProducerStop

SpecLogger == InitLogger /\ [][NextLogger]_vars

\* The application: Worker thread, GUI thread, logger thread.
InitApp == SyncIdle /\ LogInit /\ AppInit /\ CfgInit /\ Pow2Idle /\ StartIdle
    /\ StructIdle /\ ScanIdle

NextApp ==
    \/ WorkerLoopCheck
    \/ WorkerRead
    \/ WorkerScan
    \/ WorkerEmit
    \/ WorkerExcept
    \/ UpdateVisuals
    \/ CloseStopWorker
    \/ CloseStopLogger
    \/ CloseWaitWorker
    \/ CloseWaitLogger
    \/ ClosePort
    \/ LoggerStep

SpecApp == InitApp /\ [][NextApp]_vars

\* The operating system runs every thread that can take a step: the worker
\* thread, the logger thread and the GUI thread each keep taking steps while
\* they have one. Which step a thread takes where it has several (what the
\* port delivers, whether a call raises) is not the scheduler's to choose.
SpecAppFair ==
    SpecApp /\ WF_vars(WorkerStep) /\ WF_vars(LoggerStep) /\ WF_vars(GuiStep)

\* The logger alone, with its thread scheduled fairly.
SpecLoggerFair == SpecLogger /\ WF_vars(LoggerStep)

\* The program from line 245 of main.py on: the startup, and once __main__
\* has built BSDVisualizer (lines 269-273, 141-154) the worker, GUI and logger
\* threads on the port the startup returned.
ThreadsRun == threads_started /\ NextApp

NextProgram ==
    \/ NextStartup
    \/ ThreadsRun

SpecProgram == InitStartup /\ [][NextProgram]_vars

\* ------------------------------------------- properties of read_frame_header

\* The stream is delivered without a mid-stream timeout and without an error.
CleanDelivery == stalls = 0 /\ ~portFails

\* C1: when the stream holds the sync pattern exactly once, at offset k, with
\* at least frame_header_length_bytes - 8 bytes after it, and is delivered
\* without stalls or errors, read_frame_header returns a header of
\* frame_header_length_bytes bytes and out_of_sync_bytes = k, whatever the k
\* prefix bytes are.
C1_SingleSyncFoundAtOffset ==
    \A k \in SyncOffsets(stream) :
        ( /\ pc = "returned"
          /\ CleanDelivery
          /\ SyncOffsets(stream) = {k}
          /\ Len(stream) - k >= frame_header_length_bytes )
        => /\ rx_header # None
           /\ Len(rx_header) = frame_header_length_bytes
           /\ out_of_sync_bytes = k

\* C2: on a stream without any occurrence of the sync pattern, followed by
\* read timeouts, read_frame_header terminates and returns header = None.
C2_NoSyncReturnsNone ==
    (SyncOffsets(stream) = {} /\ ~portFails)
        => <>(pc = "returned" /\ rx_header = None /\ byte_count = 0)

C2_Witness ==
    /\ SyncOffsets(stream) = {}
    /\ ~portFails
    /\ pc = "returned"
    /\ rx_header = None
    /\ pos = Len(stream)
    /\ mismatches > 0
    /\ out_of_sync_bytes > mismatches

\* A serial read of a positive number of bytes that returned none.
ZeroRead(r) == r.got = 0 /\ r.req > 0 /\ ~r.err

\* C3 as stated: every read that returns zero bytes (one-byte, 7-byte or
\* header-remainder read) makes the call return header = None at once, with
\* the discarded count unchanged.
C3_AnyZeroReadAborts ==
    [][ ZeroRead(lastRead')
            => /\ pc' = "returned"
               /\ rx_header' = None
               /\ out_of_sync_bytes' = out_of_sync_bytes ]_vars

\* C3 amended: only the one-byte search read aborts the call when it returns
\* zero bytes (header None, byte count 0, discarded count unchanged, no read
\* after the return); a 7-byte pattern read that returns zero bytes adds 1 to
\* the discarded count, a header-remainder read that returns zero bytes adds
\* 8, and both go back to the one-byte search.
C3_ZeroReadOutcome ==
    [][ /\ pc # "returned"
        /\ ZeroRead(lastRead') =>
            CASE lastRead'.site = "search" ->
                    /\ pc' = "returned"
                    /\ rx_header' = None
                    /\ byte_count' = 0
                    /\ out_of_sync_bytes' = out_of_sync_bytes
              [] lastRead'.site = "match" ->
                    /\ pc' = "search"
                    /\ out_of_sync_bytes' = out_of_sync_bytes + 1
              [] lastRead'.site = "header" ->
                    /\ pc' = "search"
                    /\ out_of_sync_bytes' = out_of_sync_bytes + Len(SYNC_PATTERN)
      ]_vars

C3_Witness ==
    /\ pc = "returned"
    /\ ZeroRead(lastRead)
    /\ lastRead.site = "search"
    /\ rx_header = None
    /\ stalls > 0
    /\ pos < Len(stream)
    /\ out_of_sync_bytes > 0

\* C4: every result of read_frame_header is either (None, 0, n), returned
\* after a one-byte read that timed out or raised, or (header,
\* frame_header_length_bytes, n) with a header of exactly that many bytes that
\* starts with the sync pattern.
C4_ResultWellFormed ==
    pc = "returned" =>
        \/ /\ rx_header = None
           /\ byte_count = 0
           /\ lastRead.site = "search"
           /\ lastRead.got = 0
        \/ /\ rx_header # None
           /\ byte_count = frame_header_length_bytes
           /\ Len(rx_header) = frame_header_length_bytes
           /\ SubSeq(rx_header, 1, SyncLen) = SYNC_PATTERN
           /\ lastRead.site = "header"

C4_Witness ==
    /\ pc = "returned"
    /\ rx_header # None
    /\ Len(rx_header) > SyncLen
    /\ out_of_sync_bytes > 0


\* ---------------------------------------------------- properties of DataLogger

\* The frames written to the file as whole objects, in file order.
RECURSIVE WrittenFrames(_)
WrittenFrames(toks) ==
    IF toks = <<>> THEN <<>>
    ELSE (IF Head(toks).t = "frame" THEN <<Head(toks).id>> ELSE <<>>)
            \o WrittenFrames(Tail(toks))

\* How many times frame f stands in the file.
TimesWritten(f) ==
    Cardinality({ i \in DOMAIN file_content : file_content[i] = FrameTok(f) })

ClosingBrackets ==
    { i \in DOMAIN file_content : file_content[i] = Tok("]") }

\* The frame run holds between get and the write.
InHand == IF lpc = "write" THEN <<frame>> ELSE <<>>

RECURSIVE ObjectList(_)
ObjectList(toks) ==
    \/ toks = <<>>
    \/ /\ Len(toks) = 1
       /\ toks[1].t = "frame"
    \/ /\ Len(toks) >= 3
       /\ toks[1].t = "frame"
       /\ toks[2] = Tok(",")
       /\ ObjectList(SubSeq(toks, 3, Len(toks)))

WellFormedArray(toks) ==
    /\ Len(toks) >= 2
    /\ toks[1] = Tok("[")
    /\ toks[Len(toks)] = Tok("]")
    /\ ObjectList(SubSeq(toks, 2, Len(toks) - 1))

\* C7: whenever run has ended after opening the file, on every exit path, the
\* file is a well-formed array: an opening bracket, whole frame objects with
\* one comma between two consecutive ones, a closing bracket.
C7_FileWellFormedOnExit ==
    (lpc = "done" /\ log_file # "None") => WellFormedArray(file_content)

\* ------------------------------------------- properties of the application

\* C8: the logger's stop flag is cleared only after the Worker has left its
\* run loop and every frame it emitted has been handed to the logger queue.
C8_LoggerStopAfterDrain ==
    [][ (log_is_running /\ ~log_is_running')
            => (wpc = "done" /\ gui_events = <<>> /\ added = emitted) ]_vars

\* C9: Worker.run ends, emitting finished once, only from the loop condition
\* read as False; a frame is emitted only for a frame with a header; and an
\* iteration whose read gave None, a frame with an empty header or an
\* exception emits nothing and goes back to the loop condition.
C9_WorkerExitOnlyOnStop ==
    [][ /\ (wpc' = "done" /\ wpc # "done") =>
                /\ wpc = "top"
                /\ ~worker_is_running
                /\ worker_finished' = worker_finished + 1
        /\ worker_finished' # worker_finished => (wpc' = "done" /\ wpc # "done")
        /\ emitted' # emitted => (wpc = "check" /\ frame_data = "Frame")
        /\ (wpc \in {"check", "except"} /\ wpc' # wpc /\ frame_data # "Frame") =>
                /\ wpc' = "top"
                /\ emitted' = emitted
                /\ gui_events' = gui_events
      ]_vars

C9_Witness ==
    /\ wpc = "done"
    /\ worker_finished = 1
    /\ frame_data = "Raised"
    /\ Len(emitted) = 1

\* ------------------------------------------------- properties of parse_cfg

\* C10: any two finished calls of parse_cfg on the same command list, whatever
\* was parsed before or between them, gave the same outcome: the same
\* RadarParams, or the same exception.
C10_ParseCfgDeterministic ==
    \A i, j \in DOMAIN cfg_calls :
        cfg_calls[i].cfg = cfg_calls[j].cfg
            => cfg_calls[i].result = cfg_calls[j].result

C10_Witness ==
    /\ Len(cfg_calls) = 3
    /\ cfg_calls[1].cfg = NoChannelCfg
    /\ cfg_calls[2].cfg = CompleteCfg
    /\ cfg_calls[3].cfg = NoChannelCfg
    /\ cfg_calls[1].result = cfg_calls[3].result
    /\ cfg_calls[1].result # cfg_calls[2].result

\* The commands the derived computations of lines 140-164 read from.
RequiredCommands == {"channelCfg", "chirpComnCfg", "chirpTimingCfg", "frameCfg"}

HasCommand(cfg, name) == \E i \in 1..Len(cfg) : cfg[i].command = name

\* The last line of cfg with this command name: the one whose values stay.
LastLine(cfg, name) ==
    cfg[CHOOSE i \in 1..Len(cfg) :
            /\ cfg[i].command = name
            /\ \A j \in (i + 1)..Len(cfg) : cfg[j].command # name]

\* Every required command is there and every line has its arguments.
IsCompleteCfg(cfg) ==
    /\ \A name \in RequiredCommands : HasCommand(cfg, name)
    /\ \A i \in 1..Len(cfg) : ParseLineEffect(RadarParams, cfg[i]).error = "None"

TxAntennas(cfg) == PopCount(LastLine(cfg, "channelCfg").args[2])

\* n is 1, 2, 4, 8, ...
RECURSIVE IsPowerOfTwo(_)
IsPowerOfTwo(n) ==
    IF n <= 1 THEN n = 1 ELSE n % 2 = 0 /\ IsPowerOfTwo(n \div 2)

\* The smallest power of two that is >= n; it is 1 for n <= 1 and lies below
\* 2 * n otherwise.
SmallestPow2AtLeast(n) ==
    CHOOSE p \in 1..(IF n > 1 THEN 2 * n ELSE 1) :
        /\ IsPowerOfTwo(p)
        /\ p >= n
        /\ \A q \in 1..(p - 1) : ~(IsPowerOfTwo(q) /\ q >= n)

\* C11: for a complete command list with at least one TX antenna, parse_cfg
\* returns RadarParams with numChirpsPerFrame = (chirpEndIdx - chirpStartIdx
\* + 1) * numLoops, numDopplerChirps = numChirpsPerFrame / numTxAnt and
\* numDopplerBins = the next power of two of numDopplerChirps.
C11_CompleteCfgReturnsDerived ==
    \A i \in 1..Len(cfg_calls) :
        LET cfg == cfg_calls[i].cfg
            r == cfg_calls[i].result
            f == LastLine(cfg, "frameCfg").args
            tx == TxAntennas(cfg)
            chirps == (f[2] - f[1] + 1) * f[3]
            dp == r.returned.dataPath
        IN  (IsCompleteCfg(cfg) /\ tx >= 1) =>
                /\ r.error = "None"
                /\ dp.numChirpsPerFrame = chirps
                /\ dp.numDopplerChirps.num * tx = chirps * dp.numDopplerChirps.den
                /\ dp.numDopplerBins = SmallestPow2AtLeast(chirps \div tx)

\* The number of set bits of a mask x >= 0, counted bit position by bit
\* position.
SetBits(x) == Cardinality({ i \in 0..x : (x \div Pow2(i)) % 2 = 1 })

\* parse_cfg has just processed a channelCfg line with masks >= 0.
ChannelCfgJustParsed ==
    /\ cfg_pc = "lines"
    /\ line_no > 1
    /\ cli_cfg[line_no - 1].command = "channelCfg"
    /\ cli_cfg[line_no - 1].args[1] >= 0
    /\ cli_cfg[line_no - 1].args[2] >= 0

\* C12: after parse_cfg has processed a channelCfg line with non-negative
\* masks, numRxAnt is the number of set bits of the RX mask and numTxAnt the
\* number of set bits of the TX mask.
C12_AntennaCountsAreSetBits ==
    ChannelCfgJustParsed =>
        /\ params.dataPath.numRxAnt = SetBits(cli_cfg[line_no - 1].args[1])
        /\ params.dataPath.numTxAnt = SetBits(cli_cfg[line_no - 1].args[2])
        /\ params.channelCfg.set

\* channelCfg 15 7 has given 4 RX and 3 TX antennas.
C12_Witness ==
    /\ ChannelCfgJustParsed
    /\ cli_cfg[line_no - 1] = ChannelCfg15_7
    /\ params.dataPath.numRxAnt = 4
    /\ params.dataPath.numTxAnt = 3

\* parse_cfg has ended, by a return or by an exception.
CallEnded == cfg_pc = "idle" /\ cfg_calls # <<>>

LastCall == cfg_calls[Len(cfg_calls)]

\* The derived values of lines 140-164 that are computed from a command.
DerivedFrom(name, p) ==
    CASE name = "chirpTimingCfg" ->
            <<p.profileCfg.startFreq, p.profileCfg.idleTime,
              p.profileCfg.freqSlopeConst>>
      [] name = "chirpComnCfg" ->
            <<p.profileCfg.rampEndTime, p.profileCfg.numAdcSamples,
              p.profileCfg.digOutSampleRate, p.dataPath.numRangeBins,
              p.dataPath.numValidRangeBins>>
      [] name = "channelCfg" ->
            <<p.dataPath.numDopplerChirps, p.dataPath.numDopplerBins>>
      [] name = "frameCfg" ->
            <<p.dataPath.numDopplerChirps, p.dataPath.numDopplerBins>>

\* C15: when channelCfg, chirpComnCfg, chirpTimingCfg or frameCfg is absent
\* from the command list, parse_cfg ends in an error, returns no RadarParams,
\* and has computed no derived value that depends on the absent command.
C15_MissingCommandFailsEarly ==
    CallEnded =>
        \A name \in RequiredCommands :
            ~HasCommand(LastCall.cfg, name) =>
                /\ LastCall.result.error # "None"
                /\ DerivedFrom(name, params) = DerivedFrom(name, RadarParams)

\* The call came to line 149: every line was processed and lines 140-145
\* found their keys.
ReachedDopplerChirps ==
    /\ CallEnded
    /\ line_no > Len(cli_cfg)
    /\ params.chirpTimingCfg.set
    /\ params.chirpComnCfg.set

\* C16: when the call comes to the numDopplerChirps computation with
\* numTxAnt = 0 it fails there with ZeroDivisionError and returns no
\* RadarParams; with numTxAnt >= 1 that computation does not fail and
\* numDopplerChirps is assigned.
C16_NoTxAntennaDividesByZero ==
    ReachedDopplerChirps =>
        /\ params.dataPath.numTxAnt = 0 =>
                /\ LastCall.result.error = "ZeroDivisionError"
                /\ LastCall.result.returned = RadarParams
                /\ params.dataPath.numDopplerChirps = IntNum(0)
        /\ params.dataPath.numTxAnt >= 1 =>
                /\ LastCall.result.error # "ZeroDivisionError"
                /\ params.dataPath.numDopplerChirps =
                        TrueDiv(params.dataPath.numChirpsPerFrame,
                                params.dataPath.numTxAnt)

\* channelCfg 15 0 with every other command there: ZeroDivisionError.
C16_Witness ==
    /\ ReachedDopplerChirps
    /\ LastCall.cfg = NoTxCfg
    /\ params.dataPath.numTxAnt = 0
    /\ LastCall.result.error = "ZeroDivisionError"

\* The command names of the if/elif chain of lines 91-135.
KnownCommands ==
    {"channelCfg", "chirpComnCfg", "chirpTimingCfg", "frameCfg", "guiMonitor",
     "trackingCfg", "boundaryBox", "sensorPosition"}

IsKnown(line) == line.command \in KnownCommands

\* The command list without the lines whose first token is not recognized.
WithoutUnknown(cfg) == SelectSeq(cfg, IsKnown)

\* params after the lines of a list, none of which raises.
RECURSIVE ApplyLines(_, _)
ApplyLines(p, lines) ==
    IF lines = <<>> THEN p
    ELSE ApplyLines(ParseLineEffect(p, Head(lines)).params, Tail(lines))

\* C17: lines whose first token is not a recognized command name change
\* nothing: two command lists that differ only in such lines give the same
\* outcome, and while a list is read params is what its recognized lines
\* alone make it.
C17_UnknownCommandsIgnored ==
    /\ \A i, j \in 1..Len(cfg_calls) :
            WithoutUnknown(cfg_calls[i].cfg) = WithoutUnknown(cfg_calls[j].cfg)
                => cfg_calls[i].result = cfg_calls[j].result
    /\ cfg_pc = "lines" =>
            params = ApplyLines(RadarParams,
                        WithoutUnknown(SubSeq(cli_cfg, 1, line_no - 1)))

\* The list with sensorStop, baudRate and sensorStart lines in it has given
\* the outcome of the list without them.
C17_Witness ==
    /\ Len(cfg_calls) >= 2
    /\ cfg_calls[1].cfg = PlainCfg
    /\ cfg_calls[2].cfg = PaddedCfg
    /\ cfg_calls[1].result = cfg_calls[2].result

\* ------------------------------------------------ properties of pow2_roundup

\* C13: pow2_roundup(x) returns the smallest power of two that is >= x, and
\* returns 1 for every x <= 1.
C13_Pow2RoundupIsSmallestPowerAtLeast ==
    \A i \in 1..Len(pow2_calls) :
        /\ IsPowerOfTwo(pow2_calls[i].y)
        /\ pow2_calls[i].y = SmallestPow2AtLeast(pow2_calls[i].x)
        /\ pow2_calls[i].x <= 1 => pow2_calls[i].y = 1

\* pow2_roundup(5) has returned 8.
C13_Witness ==
    /\ pow2_pc = "returned"
    /\ pow2_calls # <<>>
    /\ pow2_calls[1] = [x |-> 5, y |-> 8]

\* C14: pow2_roundup is idempotent: called on the value it returned, it
\* returns that value again.
C14_Pow2RoundupIdempotent ==
    \A i \in 1..Len(pow2_calls) :
        i > 1 => /\ pow2_calls[i].x = pow2_calls[i - 1].y
                 /\ pow2_calls[i].y = pow2_calls[i - 1].y

\* pow2_roundup(5) gave 8 and pow2_roundup(8) gave 8.
C14_Witness ==
    /\ Len(pow2_calls) >= 2
    /\ pow2_calls[1].x = 5
    /\ pow2_calls[2] = [x |-> 8, y |-> 8]

\* ---------------------------------------------- properties of the startup

\* configure_control_port has been called and has come back.
ControlPortCalled == st_pc \notin {"scan", "open"} /\ commands # <<>>

\* C18: when the port is not in the list of available ports, or opening it
\* raises, configure_control_port gives None, configure_sensor_and_params
\* returns (None, None) without writing a command, and the worker and logger
\* threads are never started.
C18_NoPortNoStartup ==
    (port_env # "Listed" /\ ControlPortCalled) =>
        /\ h_data_port = NoPort
        /\ written = <<>>
        /\ st_pc # "send"
        /\ st_pc \in {"main", "done"} => st_ret = "NoneNone"
        /\ ~threads_started

\* The port was not in the list and the program has ended without a thread.
C18_Witness ==
    /\ port_env = "NotListed"
    /\ st_pc = "done"
    /\ st_ret = "NoneNone"
    /\ h_data_port = NoPort
    /\ ~threads_started

\* The first command of the list that contains "baudRate", 0 if none.
FirstContainingBaudRate(cfg) ==
    IF \E i \in 1..Len(cfg) : ContainsBaudRate(cfg[i])
    THEN CHOOSE i \in 1..Len(cfg) :
            /\ ContainsBaudRate(cfg[i])
            /\ \A j \in 1..(i - 1) : ~ContainsBaudRate(cfg[j])
    ELSE 0

\* The rate command k is to be written at: the initial rate up to and
\* including the first command containing "baudRate", the rate that command
\* names after it.
RateAtWrite(cfg, k) ==
    LET f == FirstContainingBaudRate(cfg)
    IN  IF f > 0 /\ f < k THEN cfg[f].args[1] ELSE INITIAL_BAUD_RATE

\* The commands are written in list order, each once, each at its rate, and
\* baudrate is assigned after the commands containing "baudRate" and after
\* no other.
SendOrder ==
    /\ \A k \in 1..Len(written) :
            /\ written[k].idx = k
            /\ written[k].baud = RateAtWrite(commands, k)
    /\ \A k \in 1..Len(written) :
            ContainsBaudRate(commands[k]) <=>
                \E n \in 1..Len(baud_sets) : baud_sets[n].after = k
    /\ \A n, m \in 1..Len(baud_sets) :
            n < m => baud_sets[n].after < baud_sets[m].after
    /\ st_ret = "ParamsPort" => Len(written) = Len(commands)

\* C19: the baud rate is changed right after each command containing
\* "baudRate" and at no other point; every command up to and including the
\* first such command is written at the initial rate, every later command at
\* the rate that command names; the commands are written in list order, each
\* exactly once.
C19_BaudChangeAfterBaudRateCommand == SendOrder

\* Every command of the list that contains "baudRate" starts with it.
BaudRateNamesAgree ==
    \A i \in 1..Len(commands) :
        ContainsBaudRate(commands[i]) <=> StartsWithBaudRate(commands[i])

\* The send order for the lists in which lines 247 and 255 pick the same
\* commands.
SendOrderWhenNamesAgree == BaudRateNamesAgree => SendOrder

\* An assignment to baudrate has raised.
BaudChangeFailed == \E n \in 1..Len(baud_sets) : ~baud_sets[n].ok

\* C20: when the assignment to baudrate raises, the port is closed, no
\* further command is written, the buffers are not reset,
\* configure_sensor_and_params returns (None, None) and no thread is started.
C20_BaudFailureAbortsStartup ==
    \A n \in 1..Len(baud_sets) :
        ~baud_sets[n].ok =>
            /\ ~h_data_port.is_open
            /\ Len(written) = baud_sets[n].after
            /\ ~buffers_reset
            /\ st_ret = "NoneNone"
            /\ st_pc \in {"main", "done"}
            /\ ~threads_started

\* The change failed with commands still to send, and the program has ended.
C20_Witness ==
    /\ BaudChangeFailed
    /\ st_pc = "done"
    /\ Len(written) < Len(commands)
    /\ ~h_data_port.is_open

\* ---------------------------------------------- properties of read_to_struct
\* The names of the returned mapping are the names of the template, in the
\* order of the template, one value each.
OneValuePerField(result, def) ==
    /\ result.kind = "dict"
    /\ Len(result.items) = Len(def)
    /\ \A i \in 1..Len(def) : result.items[i].name = def[i].name

\* C21: once read_to_struct has ended, it has returned None if the length of
\* the buffer differs from get_byte_length_from_struct of the template, and
\* otherwise a mapping with one value for every name of the template, in the
\* order of the template.
C21_DecodeErrorIffWidthMismatch ==
    rts_result.kind # "pending" =>
        IF Len(byte_array) # get_byte_length_from_struct(struct_def)
        THEN rts_result.kind = "None"
        ELSE OneValuePerField(rts_result, struct_def)

\* ------------------------------------------ properties of the discarded count
\* The step is a 7-byte pattern read that came back in full with 8 bytes that
\* are not the sync pattern.
MismatchStep ==
    /\ pc = "match"
    /\ lastRead'.site = "match"
    /\ ~lastRead'.err
    /\ lastRead'.got = 7
    /\ byte \o SubSeq(stream, pos + 1, pos + 7) # SYNC_PATTERN

\* C23: a full 7-byte pattern read whose 8 bytes differ from the sync pattern
\* adds exactly 1 to the discarded count and goes back to the one-byte
\* search with no header; the 7 bytes stay consumed, and no read ever goes
\* back in the stream.
C23_MismatchCountsOneDropsSeven ==
    [][/\ MismatchStep =>
            /\ out_of_sync_bytes' = out_of_sync_bytes + 1
            /\ pc' = "search"
            /\ pos' = pos + 7
            /\ rx_header' = None
       /\ pos' >= pos]_vars

\* A mismatch has just consumed 7 bytes among which a sync pattern starts,
\* and the search goes on behind them.
C23_Witness ==
    /\ pc = "search"
    /\ lastRead.site = "match"
    /\ lastRead.got = 7
    /\ mismatches = 1
    /\ out_of_sync_bytes = 1
    /\ \E k \in SyncOffsets(stream) : pos - 7 <= k /\ k < pos

\* The step is a pattern read that returned fewer than 7 bytes.
ShortPatternStep ==
    /\ pc = "match"
    /\ lastRead'.site = "match"
    /\ ~lastRead'.err
    /\ lastRead'.got < 7

\* The step is a header-remainder read that returned fewer bytes than the
\* header still needs.
ShortHeaderStep ==
    /\ pc = "header"
    /\ lastRead'.site = "header"
    /\ ~lastRead'.err
    /\ lastRead'.got < frame_header_length_bytes - Len(SYNC_PATTERN)

\* C24: a pattern read that returns n < 7 bytes adds 1 + n to the discarded
\* count, a header-remainder read that returns m bytes too few adds 8 + m;
\* both consume what they read, return no header and go back to the one-byte
\* search.
C24_ShortReadCountsConsumedBytes ==
    [][/\ ShortPatternStep =>
            /\ out_of_sync_bytes' = out_of_sync_bytes + 1 + lastRead'.got
            /\ pos' = pos + lastRead'.got
            /\ pc' = "search"
            /\ rx_header' = None
       /\ ShortHeaderStep =>
            /\ out_of_sync_bytes' = out_of_sync_bytes + 8 + lastRead'.got
            /\ pos' = pos + lastRead'.got
            /\ pc' = "search"
            /\ rx_header' = None]_vars

\* A pattern read that returned nothing, then a full pattern followed by one
\* byte of a header that needs two: 1 + 0 and 8 + 1 bytes are discarded.
C24_Witness ==
    /\ stream = <<2>> \o SYNC_PATTERN \o <<0>>
    /\ pc = "search"
    /\ lastRead.site = "header"
    /\ lastRead.req = 2
    /\ lastRead.got = 1
    /\ stalls = 1
    /\ out_of_sync_bytes = 10

\* ---------------------------------- properties of the rounding in parse_cfg
\* C25: for every x >= 0 the rounding parse_cfg writes inline,
\* 1 << (x - 1).bit_length(), is the value pow2_roundup(x) returns.
C25_InlineRoundingIsPow2Roundup ==
    \A i \in 1..Len(pow2_calls) :
        pow2_calls[i].x >= 0 => InlinePow2(pow2_calls[i].x) = pow2_calls[i].y

\* ------------------------------------------------ properties of the pipeline
\* C22: once the Worker has left its loop and the logger has finalized the
\* file without a failure of its own, every frame the Worker emitted stands in
\* the file.
C22_EmittedFramesAreLogged ==
    (wpc = "done" /\ lpc = "done" /\ ~logErr)
        => \A i \in 1..Len(emitted) : TimesWritten(emitted[i]) >= 1

\* ------------------------------------------------ properties of the shutdown
\* C27: once stop() has been called, with the logger thread scheduled fairly
\* and finitely many calls of add_data, run ends: the queue is empty, the
\* closing bracket is the last thing written to the file run opened, the file
\* is closed, and finished has been emitted once.
C27_StopLeadsToFinalizedLog ==
    /\ [][(lpc # "finally" /\ lpc' = "finally" /\ ~logErr')
            => (data_queue = <<>> /\ ~log_is_running)]_vars
    /\ (~log_is_running) ~>
            /\ lpc = "done"
            /\ log_finished = 1
            /\ log_file # "None" =>
                    /\ log_file = "closed"
                    /\ file_content[Len(file_content)] = Tok("]")

\* stop() was called with frames still in the queue, and run has written
\* them, closed the file and emitted finished.
C27_Witness ==
    /\ ~log_is_running
    /\ addedAtStop >= 2
    /\ lpc = "done"
    /\ log_finished = 1
    /\ log_file = "closed"
    /\ data_queue = <<>>
    /\ Len(WrittenFrames(file_content)) = Len(added)
    /\ Len(added) = MaxFrames

\* C28: once Worker.stop() has been called the Worker starts no frame read
\* other than the one in progress, and it eventually emits finished, whatever
\* the serial stream delivers.
C28_StopLeadsToWorkerFinished ==
    /\ [][(~worker_is_running /\ ~InHeaderSearch) => ~InHeaderSearch']_vars
    /\ (~worker_is_running) ~> (wpc = "done" /\ worker_finished = 1)

\* C26: a step of the logger, a failing one included, changes nothing of the
\* Worker (its flag, its place in the loop, the frames it emitted); after a
\* failure of the logger the Worker still has a step to take, update_visuals
\* still hands a waiting frame to add_data, and the logger emits finished
\* once and no more.
C26_LoggerFailureLeavesAcquisitionRunning ==
    /\ [][(lpc' # lpc \/ logErr' # logErr)
            => UNCHANGED <<worker_is_running, wpc, frame_data, emitted,
                           worker_finished, gui_events>>]_vars
    /\ [](logErr =>
            /\ log_finished <= 1
            /\ lpc = "done" => log_finished = 1
            /\ wpc # "done" => ENABLED WorkerStep
            /\ (gui_events # <<>> /\ gpc \in {"idle", "closed"})
                    => ENABLED UpdateVisuals)
    /\ logErr ~> (lpc = "done" /\ log_finished = 1)

\* The logger failed on a frame and has ended; the window is open, the Worker
\* is in its next read, and a frame emitted since waits in the queue.
C26_Witness ==
    /\ logErr
    /\ lpc = "done"
    /\ log_finished = 1
    /\ log_file = "closed"
    /\ gpc = "idle"
    /\ worker_is_running
    /\ wpc = "read"
    /\ Len(emitted) >= 2
    /\ data_queue # <<>>
    /\ worker_finished = 0

\* C29: add_data can always be called and always puts its frame on the
\* queue: whatever the queue holds and wherever the logger thread stands,
\* the producer's next add_data is enabled, and a step that adds a frame
\* lengthens the queue by that frame.
C29_AddDataNeverBlocks ==
    /\ [](Len(added) < MaxFrames => ENABLED ProducerAdd)
    /\ [][added' # added =>
            /\ added' = Append(added, added'[Len(added')])
            /\ data_queue' = Append(data_queue, added'[Len(added')])]_vars

\* The logger has ended on a failure and never took a frame; the queue holds
\* every frame add_data was called with.
C29_Witness ==
    /\ lpc = "done"
    /\ logErr
    /\ Len(added) = MaxFrames
    /\ data_queue = added
    /\ Len(data_queue) >= 3

\* ------------------------------------------------ properties of the data port
\* The port object the startup opened is open and closeEvent has not closed
\* it.
PortIsOpen == h_data_port.handle /\ h_data_port.is_open /\ port_open

\* A step of the worker thread.
WorkerMoves == wpc' # wpc \/ scan_byte' # scan_byte

\* A step of the startup on the port: a write, a change of the baud rate, the
\* reset of the buffers.
ConfiguresPort ==
    written' # written \/ baud_sets' # baud_sets \/ buffers_reset' # buffers_reset

\* C30: every write of the configuration and the reset of the buffers come
\* before the worker thread takes its first step; the Worker reads only from
\* the open port, configured in full; the port is closed by closeEvent only
\* after Worker.run has ended, and a closed port is never closed again or
\* reopened.
C30_PortOwnedByRunningWorker ==
    [][/\ ConfiguresPort => (~threads_started /\ wpc = "top" /\ emitted = <<>>)
       /\ WorkerMoves =>
            /\ threads_started
            /\ PortIsOpen
            /\ buffers_reset
            /\ Len(written) = Len(commands)
       /\ (InHeaderSearch \/ InHeaderSearch') => (PortIsOpen /\ PortIsOpen')
       /\ port_open' # port_open =>
            /\ port_open /\ h_data_port.is_open
            /\ wpc = "done" /\ worker_finished = 1
            /\ gpc = "close_port"
       /\ (h_data_port.is_open /\ ~h_data_port'.is_open) =>
            (~threads_started /\ port_open)
       /\ ~PortIsOpen /\ h_data_port.handle => ~PortIsOpen'
      ]_vars

\* Every command was written, the Worker read frames from the port and ended,
\* and closeEvent has closed the port.
C30_Witness ==
    /\ threads_started
    /\ Len(commands) >= 3
    /\ Len(written) = Len(commands)
    /\ buffers_reset
    /\ Len(emitted) >= 1
    /\ wpc = "done"
    /\ gpc = "closed"
    /\ ~port_open

\* ------------------------------------ properties of the count against the stream
\* C31: at every point of read_frame_header the discarded count is at most
\* the number of bytes read from the stream so far; when a header is
\* returned it is at most the bytes read less the header length, and equal
\* to that exactly when no full 8-byte pattern failed to match during the
\* call.
C31_DiscardedAtMostConsumed ==
    /\ out_of_sync_bytes <= pos
    /\ (pc = "returned" /\ rx_header # None) =>
            /\ out_of_sync_bytes <= pos - frame_header_length_bytes
            /\ (out_of_sync_bytes = pos - frame_header_length_bytes)
                    <=> (mismatches = 0)

\* A header was returned after a junk byte and a corrupted pattern: 9 bytes
\* were read before the header, 2 are counted.
C31_Witness ==
    /\ pc = "returned"
    /\ rx_header # None
    /\ mismatches = 1
    /\ out_of_sync_bytes = 2
    /\ pos - frame_header_length_bytes = 9

====
